---- MODULE Spec2Model ----
(***************************************************************************)
(* A model of the illumination kernel of jcmorrow/ray_tracer:              *)
(* Intersection::hit and Intersection::precompute (src/src/intersection.rs)*)
(* Ray::intersect / Ray::intersect_world (src/src/ray.rs), the primitives' *)
(* local_intersect (src/src/intersectable.rs), Material::lighting          *)
(* (src/src/material.rs) and the recursive World::color_at with its        *)
(* shade_hit, is_shadowed, reflected_color and refracted_color             *)
(* (src/src/world.rs).                                                     *)
(*                                                                         *)
(* Geometry.  All rays of the world model run along the world y axis       *)
(* (direction (0, +-1, 0), origin (0, y, 0)).  Spheres are unit spheres    *)
(* under translation(tx, ty, 0) * scaling(s, s, s); planes are the local   *)
(* x-z plane under translation(0, ty, 0).  On that axis every quantity     *)
(* the code computes is a rational number, and the model computes it       *)
(* exactly.  Lengths are counted in multiples of EPSILON.  A vector along  *)
(* the axis is written as its y component.                                 *)
(*                                                                         *)
(* Numbers that are not lengths (colors, material coefficients,            *)
(* refractive indices, cosines) are exact rationals <<num, den>>.          *)
(***************************************************************************)
EXTENDS Integers, Sequences, FiniteSets, TLC

VARIABLES
    world,      \* World { objects, light_source }
    stack,      \* the active World::color_at calls, outermost first
    returned,   \* what the outermost color_at returned, or NoColor
    calls,      \* how many times color_at has been called so far
    arg,        \* the argument an operation under test was called with
    xs,         \* the Vec<Intersection> an operation under test works on
    res,        \* the value the operation under test returned
    pc          \* the operation that runs next

vars == <<world, stack, returned, calls, arg, xs, res, pc>>

----------------------------------------------------------------------------
(* Exact rationals <<n, d>>, d > 0, in lowest terms.                       *)

Abs(i) == IF i < 0 THEN -i ELSE i

Sign(i) == IF i < 0 THEN -1 ELSE IF i > 0 THEN 1 ELSE 0

RECURSIVE Gcd(_, _)
Gcd(a, b) == IF b = 0 THEN a ELSE Gcd(b, a % b)

Rat(n, d) ==
    LET g == Gcd(Abs(n), Abs(d))
        s == IF d < 0 THEN -1 ELSE 1
    IN  <<(s * n) \div g, (s * d) \div g>>

RInt(i) == <<i, 1>>

RAdd(a, b) ==
    LET l == (a[2] \div Gcd(a[2], b[2])) * b[2]
    IN  Rat(a[1] * (l \div a[2]) + b[1] * (l \div b[2]), l)

RNeg(a) == <<-a[1], a[2]>>

RSub(a, b) == RAdd(a, RNeg(b))

RMul(a, b) ==
    LET g1 == Gcd(Abs(a[1]), b[2])
        g2 == Gcd(Abs(b[1]), a[2])
    IN  Rat((a[1] \div g1) * (b[1] \div g2), (a[2] \div g2) * (b[2] \div g1))

RDiv(a, b) == RMul(a, Rat(b[2], b[1]))

RLt(a, b) == a[1] * b[2] < b[1] * a[2]

RIsZero(a) == a[1] = 0

RPos(a) == a[1] > 0

----------------------------------------------------------------------------
(* Values.                                                                 *)

EPSILON == 1            \* the unit of length: every length is k * EPSILON

NoColor == "none"
None == [some |-> FALSE]
Some(v) == [some |-> TRUE, val |-> v]

\* Color: the three channels are equal in every scene of the model (white
\* light, white patterns), so a color is the one rational they share.
Black == RInt(0)
White == RInt(1)

Material(amb, dif, spe, refl, transp, ri) ==
    [ambient |-> amb, diffuse |-> dif, specular |-> spe, shininess |-> 200,
     reflective |-> refl, transparency |-> transp, refractive_index |-> ri]

\* Material::new()
MaterialNew ==
    Material(Rat(1, 10), Rat(9, 10), Rat(9, 10), RInt(0), RInt(0), RInt(1))

\* translation(tx, ty, 0) * scaling(s, s, s)
Transform(tx, ty, s) == [tx |-> tx, ty |-> ty, s |-> s]

Shape(id, kind, transform, material) ==
    [id |-> id, kind |-> kind, transform |-> transform, material |-> material]

Ray(origin, direction) == [origin |-> origin, direction |-> direction]

Intersection(t, object) == [t |-> t, object |-> object]

----------------------------------------------------------------------------
(* Equality as the code defines it.                                        *)

\* utilities::equal
Equal(a, b) == Abs(a - b) < EPSILON

\* Matrix4::equal, on the entries that differ between two transforms
MatrixEqual(m, n) == Equal(m.tx, n.tx) /\ Equal(m.ty, n.ty) /\ Equal(m.s, n.s)

\* Material::equal: the coefficients are multiples of 1/10 here, so two of
\* them are within 0.00001 of each other exactly when they are the same
MaterialEqual(m, n) ==
    /\ m.ambient = n.ambient
    /\ m.diffuse = n.diffuse
    /\ m.shininess = n.shininess
    /\ m.specular = n.specular

\* impl PartialEq for Shape: the material is compared with itself
ShapeEq(a, b) ==
    MatrixEqual(a.transform, b.transform) /\ MaterialEqual(a.material, a.material)

\* #[derive(PartialEq)] on Intersection { object: Arc<Shape>, t }
IntersectionEq(a, b) == ShapeEq(a.object, b.object) /\ a.t = b.t

----------------------------------------------------------------------------
(* Intersection::hit                                                       *)

\* hits.retain(|x| x.t > 0.0)
Retain(hits) == SelectSeq(hits, LAMBDA x : x.t > 0)

\* the test of the loop body: h.t > 0.0 && h.t < hit.t
HitFarther(h, hit) == h.t > 0 /\ h.t > hit.t

HitCloser(h, hit) == h.t > 0 /\ h.t < hit.t

\* for h in hits { if ... { hit = h.clone() } }, from element i on
RECURSIVE HitLoop(_, _, _)
HitLoop(hits, i, hit) ==
    IF i > Len(hits) THEN hit
    ELSE HitLoop(hits, i + 1, IF HitCloser(hits[i], hit) THEN hits[i] ELSE hit)

Hit(hits) ==
    LET kept == Retain(hits)
    IN  IF kept # <<>> THEN Some(HitLoop(kept, 1, kept[1])) ELSE None

----------------------------------------------------------------------------
(* Ray::position, Ray::intersect, Ray::intersect_world                     *)

Position(ray, t) == ray.origin + ray.direction * t

\* Ray::transform(shape.transform.inverse()): the local ray, with its
\* coordinates multiplied by the scale s so that they stay integers
\* (local x = ox / s, local y = oy / s, local direction = d / s).
LocalRay(ray, shape) ==
    [ox |-> 0 - shape.transform.tx,
     oy |-> ray.origin - shape.transform.ty,
     d  |-> ray.direction,
     s  |-> shape.transform.s]

\* the exact square root of a perfect square
Sqrt(n) == CHOOSE r \in 0..n : r * r = n

\* local_intersect_sphere: a, b, c are the code's, times s^2
LocalIntersectSphere(lr, object) ==
    LET a == lr.d * lr.d
        b == (lr.d * lr.oy) * 2
        c == (lr.ox * lr.ox + lr.oy * lr.oy) - lr.s * lr.s
        discriminant == b * b - 4 * a * c
    IN  IF discriminant < 0 THEN <<>>
        ELSE <<Intersection((0 - b - Sqrt(discriminant)) \div (2 * a), object),
               Intersection((0 - b + Sqrt(discriminant)) \div (2 * a), object)>>

\* local_intersect_plane: a direction component of the model is 0 or +-1,
\* so |direction.y| < EPSILON (0.00001) exactly when it is 0
LocalIntersectPlane(lr, object) ==
    IF lr.d = 0 THEN <<>>
    ELSE <<Intersection((0 - lr.oy) \div lr.d, object)>>

\* Intersectable::local_intersect: every other kind yields Vec::new()
LocalIntersect(lr, object) ==
    CASE object.kind = "sphere" -> LocalIntersectSphere(lr, object)
      [] object.kind = "plane"  -> LocalIntersectPlane(lr, object)
      [] OTHER                  -> <<>>

RayIntersect(ray, shape) == LocalIntersect(LocalRay(ray, shape), shape)

\* intersections.sort_by(|a, b| a.t.partial_cmp(&b.t)): a stable sort
RECURSIVE InsertByT(_, _)
InsertByT(sorted, x) ==
    IF sorted = <<>> THEN <<x>>
    ELSE IF sorted[Len(sorted)].t <= x.t THEN Append(sorted, x)
    ELSE Append(InsertByT(SubSeq(sorted, 1, Len(sorted) - 1), x),
                sorted[Len(sorted)])

Unsorted(s) == s

RECURSIVE SortByT(_)
SortByT(s) ==
    IF s = <<>> THEN <<>>
    ELSE InsertByT(SortByT(SubSeq(s, 1, Len(s) - 1)), s[Len(s)])

\* for object in &world.objects { intersections.extend(self.intersect(object)) }
RECURSIVE ExtendAll(_, _)
ExtendAll(ray, objects) ==
    IF objects = <<>> THEN <<>>
    ELSE ExtendAll(ray, SubSeq(objects, 1, Len(objects) - 1))
             \o RayIntersect(ray, objects[Len(objects)])

IntersectWorld(ray, w) == SortByT(ExtendAll(ray, w.objects))

----------------------------------------------------------------------------
(* Shape::normal_at, Point::reflect, Intersection::precompute              *)

\* Shape::normal_at at a point of the axis, for a shape centred on the axis
\* (tx = 0): the sphere's local normal is local_point - origin, which
\* normal_to_world scales and normalizes to a unit vector; the plane's local
\* normal is (0, 1, 0).
NormalAt(shape, world_point) ==
    IF shape.kind = "sphere" THEN Sign(world_point - shape.transform.ty) ELSE 1

\* Point::reflect: in - normal * 2 * dot(in, normal)
Reflect(in, normal) == in - normal * (2 * (in * normal))

RefractiveIndexOfLast(containers) ==
    IF containers # <<>>
    THEN containers[Len(containers)].material.refractive_index
    ELSE RInt(1)

\* the body of `for i in xs`, from element k on; st holds containers, n1, n2
RECURSIVE ContainersLoop(_, _, _, _)
ContainersLoop(self, list, k, st) ==
    IF k > Len(list) THEN st
    ELSE
      LET i == list[k]
          n1 == IF IntersectionEq(i, self)
                THEN RefractiveIndexOfLast(st.containers) ELSE st.n1
          included == \E j \in 1..Len(st.containers) :
                          ShapeEq(st.containers[j], i.object)
          containers ==
              IF included
              THEN SelectSeq(st.containers, LAMBDA obj : ~ShapeEq(obj, i.object))
              ELSE Append(st.containers, i.object)
          n2 == IF IntersectionEq(i, self)
                THEN RefractiveIndexOfLast(containers) ELSE st.n2
      IN  ContainersLoop(self, list, k + 1,
                         [containers |-> containers, n1 |-> n1, n2 |-> n2])

InsideWhenFacing(normalv, eyev) == normalv * eyev > 0

\* precompute.normalv.dot(&precompute.eyev) < 0.0
Inside(normalv, eyev) == normalv * eyev < 0

Precompute(self, ray, list) ==
    LET point == Position(ray, self.t)
        normalv == NormalAt(self.object, point)
        eyev == ray.direction * (-1)
        st == ContainersLoop(self, list, 1,
                  [containers |-> <<>>, n1 |-> RInt(1), n2 |-> RInt(1)])
        flip == Inside(normalv, eyev)
    IN  [eyev |-> eyev,
         inside |-> flip,
         n1 |-> st.n1,
         n2 |-> st.n2,
         normalv |-> IF flip THEN normalv * (-1) ELSE normalv,
         object |-> self.object,
         over_point |-> point + normalv * EPSILON,
         under_point |-> point - normalv * EPSILON,
         point |-> point,
         reflectv |-> Reflect(ray.direction, normalv),
         t |-> self.t]

----------------------------------------------------------------------------
(* Material::lighting, World::is_shadowed                                  *)

\* f64::powf for the bases that occur on the axis (0 and +-1)
RECURSIVE Powf(_, _)
Powf(x, k) ==
    IF k = 0 THEN 1
    ELSE IF k % 2 = 0 THEN Powf(x * x, k \div 2)
    ELSE x * Powf(x * x, k \div 2)

\* Point::normalize of a vector along the axis: v / magnitude(v)
Normalize(v) == v \div Abs(v)

\* Material::lighting; the pattern is Solid(white)
Lighting(material, light, position, eye, normal, in_shadow) ==
    LET color == White
        effective_color == RMul(color, light.intensity)
        ambient == RMul(effective_color, material.ambient)
        lightv == Normalize(light.position - position)
        light_dot_normal == lightv * normal
        reflectv == Reflect(lightv * (-1), normal)
        reflect_dot_eye == reflectv * eye
        diffuse == IF light_dot_normal >= 0
                   THEN RMul(RMul(effective_color, material.diffuse),
                             RInt(light_dot_normal))
                   ELSE Black
        specular == IF light_dot_normal >= 0 /\ reflect_dot_eye > 0
                    THEN RMul(RMul(light.intensity, material.specular),
                              RInt(Powf(reflect_dot_eye, material.shininess)))
                    ELSE Black
    IN  IF in_shadow THEN ambient ELSE RAdd(RAdd(ambient, diffuse), specular)

\* the match on Intersection::hit: Some(hit) => hit.t < distance, None => false
HitWithinOrAt(hit, distance) == hit.some /\ hit.val.t <= distance

HitWithin(hit, distance) == hit.some /\ hit.val.t < distance

\* World::is_shadowed
IsShadowed(w, point) ==
    LET from_object_to_light_source == w.light.position - point
        distance == Abs(from_object_to_light_source)
        ray == Ray(point, Normalize(from_object_to_light_source))
    IN  HitWithin(Hit(IntersectWorld(ray, w)), distance)

----------------------------------------------------------------------------
(* World::reflected_color, World::refracted_color, Intersection::schlick,  *)
(* World::shade_hit: the parts between the calls of color_at               *)

\* if precompute.object.material.reflective == 0.0 || remaining == 0
ReflectedIsBlack(material, remaining) ==
    RIsZero(material.reflective) \/ remaining = 0

ReflectedRay(comps) == Ray(comps.over_point, comps.reflectv)

\* the depth handed to color_at by reflected_color
ReflectedRemainingSame(remaining) == remaining

ReflectedRemaining(remaining) == remaining - 1

\* color.multiply_scalar(precompute.object.material.reflective)
ReflectedUnscaled(color, material) == color

ReflectedScale(color, material) == RMul(color, material.reflective)

\* let n_ratio = precompute.n2 / precompute.n1
NRatio(comps) == RDiv(comps.n2, comps.n1)

\* n_ratio.powi(2) * (1. - cos_i.powi(2))
Sin2T(n_ratio, cos_i) ==
    RMul(RMul(n_ratio, n_ratio), RSub(RInt(1), RMul(cos_i, cos_i)))

\* the early returns of refracted_color
RefractedIsBlack(material, remaining, n_ratio, cos_i) ==
    \/ remaining = 0
    \/ RIsZero(material.transparency)
    \/ RLt(RInt(1), Sin2T(n_ratio, cos_i))

\* f64::sqrt of a rational square
RSqrt(a) == <<Sqrt(a[1]), Sqrt(a[2])>>

RefractedRayFromOverPoint(comps) == Ray(comps.over_point, comps.eyev * (-1))

\* the refracted ray, for a ray along the axis
RefractedRay(comps) ==
    LET n_ratio == NRatio(comps)
        cos_i == RInt(comps.normalv * comps.eyev)
        cos_t == RSqrt(RSub(RInt(1), Sin2T(n_ratio, cos_i)))
        direction ==
            RSub(RMul(RInt(comps.normalv), RSub(RMul(n_ratio, cos_i), cos_t)),
                 RMul(RInt(comps.eyev), n_ratio))
    IN  Ray(comps.under_point, direction[1] \div direction[2])

\* the depth handed to color_at by refracted_color
RefractedRemainingSame(remaining) == remaining

RefractedRemaining(remaining) == remaining - 1

\* .multiply_scalar(precompute.object.material.transparency)
RefractedScale(color, material) == RMul(color, material.transparency)

\* Intersection::schlick, for a ray along the axis
Schlick(comps) ==
    LET cos_i == RInt(comps.normalv * comps.eyev)
        n == RDiv(comps.n1, comps.n2)
        sin2_t == Sin2T(n, cos_i)
        r0q == RDiv(RSub(comps.n1, comps.n2), RAdd(comps.n1, comps.n2))
        r0 == RMul(r0q, r0q)
        cos == IF RLt(comps.n2, comps.n1)
               THEN RSqrt(RSub(RInt(1), sin2_t)) ELSE cos_i
        c1 == RSub(RInt(1), cos)
        c5 == RMul(RMul(RMul(c1, c1), RMul(c1, c1)), c1)
    IN  IF RLt(comps.n2, comps.n1) /\ RLt(RInt(1), sin2_t) THEN RInt(1)
        ELSE RAdd(r0, RMul(RSub(RInt(1), r0), c5))

\* the test of shade_hit: transparency > 0. && reflective > 0.
BlendsEither(material) == RPos(material.transparency) \/ RPos(material.reflective)

Blends(material) == RPos(material.transparency) /\ RPos(material.reflective)

\* the value shade_hit returns
ShadeHitColor(comps, surface_color, reflected_color, refracted_color) ==
    IF Blends(comps.object.material)
    THEN LET reflectance == Schlick(comps)
         IN  RAdd(RAdd(surface_color, RMul(reflected_color, reflectance)),
                  RMul(refracted_color, RSub(RInt(1), reflectance)))
    ELSE RAdd(RAdd(surface_color, reflected_color), refracted_color)

\* color_at: hits.is_empty(), and the intersection it hands to precompute
NoHits(hits) == hits = <<>>

ShadedIntersection(hits) == hits[1]

----------------------------------------------------------------------------
(* Bounds and inputs of the operations checked on their own.               *)

MaxHits == 3            \* longest list handed to Intersection::hit
MaxT == 2               \* largest |t| in such a list
MaxGlass == 3           \* most glass spheres on the ray of a precompute

\* every sequence over S of length at most n
SeqUpTo(S, n) == UNION {[1..m -> S] : m \in 0..n}

NoWorld == [objects |-> <<>>, light |-> 0]

HitShapes ==
    {Shape(1, "sphere", Transform(0, 0, 4), MaterialNew),
     Shape(2, "plane", Transform(0, 4, 1), MaterialNew)}

HitInputs ==
    SeqUpTo({Intersection(t, o) : t \in (0 - MaxT)..MaxT, o \in HitShapes}, MaxHits)

Glass(ri) == Material(Rat(1, 10), RInt(0), RInt(1), RInt(0), RInt(1), ri)

\* the three overlapping spheres of test_glass_sphere (unit = 1/4), and a
\* fourth sphere that shares the first one's transform
GlassA == [kind |-> "sphere", transform |-> Transform(0, 0, 8), material |-> Glass(Rat(3, 2))]
GlassB == [kind |-> "sphere", transform |-> Transform(0, -1, 4), material |-> Glass(RInt(2))]
GlassC == [kind |-> "sphere", transform |-> Transform(0, 1, 4), material |-> Glass(Rat(5, 2))]
GlassD == [kind |-> "sphere", transform |-> Transform(0, 0, 8), material |-> Glass(RInt(2))]

GlassSpheres == {GlassA, GlassB, GlassC, GlassD}

\* a world of the given shapes, each with its place in the list as identity
Numbered(shapes) ==
    [i \in 1..Len(shapes) |->
        Shape(i, shapes[i].kind, shapes[i].transform, shapes[i].material)]

IsInjective(f) == \A i, j \in DOMAIN f : f[i] = f[j] => i = j

GlassWorlds ==
    {[objects |-> Numbered(f), light |-> 0] :
        f \in {g \in SeqUpTo(GlassSpheres, MaxGlass) : g # <<>> /\ IsInjective(g)}}

GlassRays == {Ray(-16, 1), Ray(16, -1), Ray(0, 1)}

----------------------------------------------------------------------------
(* Intersection::hit on its own.                                           *)

InitHit ==
    /\ world = NoWorld
    /\ stack = <<>>
    /\ returned = NoColor
    /\ calls = 0
    /\ arg \in HitInputs
    /\ xs = arg
    /\ res = None
    /\ pc = "hit"

HitCall ==
    /\ pc = "hit"
    /\ res' = Hit(xs)
    /\ xs' = Retain(xs)
    /\ pc' = "done"
    /\ UNCHANGED <<world, stack, returned, calls, arg>>

NextHit == HitCall

SpecHit == InitHit /\ [][NextHit]_vars

----------------------------------------------------------------------------
(* Intersection::precompute on the intersections of one ray.               *)

InitPrecompute ==
    /\ world \in GlassWorlds
    /\ stack = <<>>
    /\ returned = NoColor
    /\ calls = 0
    /\ \E r \in GlassRays :
         /\ xs = IntersectWorld(r, world)
         /\ \E k \in 1..Len(xs) : arg = [ray |-> r, k |-> k]
    /\ res = None
    /\ pc = "precompute"

PrecomputeCall ==
    /\ pc = "precompute"
    /\ res' = Precompute(xs[arg.k], arg.ray, xs)
    /\ pc' = "done"
    /\ UNCHANGED <<world, stack, returned, calls, arg, xs>>

NextPrecompute == PrecomputeCall

SpecPrecompute == InitPrecompute /\ [][NextPrecompute]_vars

----------------------------------------------------------------------------
(* World::color_at as a machine: one frame of `stack` per active call.     *)

MaxObjects == 2         \* most top-level shapes in a world
MaxRemaining == 2       \* largest depth bound handed to the outermost color_at

Mirror == Material(Rat(1, 10), Rat(9, 10), Rat(9, 10), RInt(1), RInt(0), RInt(1))
HalfGlass == Material(Rat(1, 10), Rat(9, 10), Rat(9, 10), RInt(0), Rat(1, 2), Rat(3, 2))
Glazed == Material(Rat(1, 10), Rat(9, 10), Rat(9, 10), Rat(1, 2), Rat(1, 2), Rat(3, 2))

WorldShapes ==
    {[kind |-> "sphere", transform |-> Transform(0, 0, 4), material |-> MaterialNew],
     [kind |-> "sphere", transform |-> Transform(0, 0, 4), material |-> Glazed],
     [kind |-> "sphere", transform |-> Transform(0, 8, 4), material |-> HalfGlass],
     [kind |-> "sphere", transform |-> Transform(16, 0, 4), material |-> MaterialNew],
     [kind |-> "plane", transform |-> Transform(0, -8, 1), material |-> Mirror],
     [kind |-> "plane", transform |-> Transform(0, 8, 1), material |-> Mirror]}

Lights == {[position |-> y, intensity |-> White] : y \in {-18, 2}}

Worlds ==
    {[objects |-> Numbered(f), light |-> l] :
        f \in SeqUpTo(WorldShapes, MaxObjects), l \in Lights}

CameraRays == {Ray(-14, 1), Ray(0, 1), Ray(0, -1), Ray(-4, 1)}

\* a call of color_at(ray, remaining) that has not started; `via` names the
\* caller (the test or camera, reflected_color or refracted_color)
Frame(ray, remaining, via) ==
    [ray |-> ray, remaining |-> remaining, via |-> via, step |-> "color_at",
     hits |-> <<>>, comps |-> None, is_shadowed |-> FALSE,
     surface_color |-> Black, reflected_color |-> Black,
     refracted_color |-> Black,
     casts |-> [reflected |-> 0, refracted |-> 0],
     got |-> [reflected |-> Black, refracted |-> Black],
     color |-> Black]

Top == stack[Len(stack)]

SetTop(f) == [stack EXCEPT ![Len(stack)] = f]

Init ==
    /\ world \in Worlds
    /\ \E r \in CameraRays, n \in 0..MaxRemaining :
         /\ arg = [ray |-> r, remaining |-> n]
         /\ stack = <<Frame(r, n, "caller")>>
    /\ returned = NoColor
    /\ calls = 1
    /\ xs = <<>>
    /\ res = None
    /\ pc = "color_at"

\* color_at, no intersection: Color::black()
ColorAtBlack ==
    /\ pc = "color_at" /\ stack # <<>> /\ Top.step = "color_at"
    /\ LET hits == IntersectWorld(Top.ray, world)
       IN  /\ NoHits(hits)
           /\ stack' = SetTop([Top EXCEPT !.step = "return", !.hits = hits,
                                          !.color = Black])
    /\ UNCHANGED <<world, returned, calls, arg, xs, res, pc>>

\* color_at with intersections, up to the call of reflected_color:
\* precompute, then shade_hit's is_shadowed and lighting
ColorAtShade ==
    /\ pc = "color_at" /\ stack # <<>> /\ Top.step = "color_at"
    /\ LET hits == IntersectWorld(Top.ray, world)
           comps == Precompute(ShadedIntersection(hits), Top.ray, hits)
           is_shadowed == IsShadowed(world, comps.over_point)
       IN  /\ ~NoHits(hits)
           /\ stack' = SetTop([Top EXCEPT
                  !.step = "reflected_color",
                  !.hits = hits,
                  !.comps = Some(comps),
                  !.is_shadowed = is_shadowed,
                  !.surface_color =
                      Lighting(comps.object.material, world.light, comps.point,
                               comps.eyev, comps.normalv, is_shadowed)])
    /\ UNCHANGED <<world, returned, calls, arg, xs, res, pc>>

\* reflected_color returns black without a call
ReflectedColorBlack ==
    /\ pc = "color_at" /\ stack # <<>> /\ Top.step = "reflected_color"
    /\ ReflectedIsBlack(Top.comps.val.object.material, Top.remaining)
    /\ stack' = SetTop([Top EXCEPT !.step = "refracted_color",
                                   !.reflected_color = Black])
    /\ UNCHANGED <<world, returned, calls, arg, xs, res, pc>>

\* reflected_color calls color_at
ReflectedColorCast ==
    /\ pc = "color_at" /\ stack # <<>> /\ Top.step = "reflected_color"
    /\ ~ReflectedIsBlack(Top.comps.val.object.material, Top.remaining)
    /\ stack' = Append(
           SetTop([Top EXCEPT !.step = "reflected_color_wait",
                              !.casts.reflected = @ + 1]),
           Frame(ReflectedRay(Top.comps.val),
                 ReflectedRemaining(Top.remaining), "reflected_color"))
    /\ calls' = calls + 1
    /\ UNCHANGED <<world, returned, arg, xs, res, pc>>

\* refracted_color returns black without a call
RefractedColorBlack ==
    /\ pc = "color_at" /\ stack # <<>> /\ Top.step = "refracted_color"
    /\ RefractedIsBlack(Top.comps.val.object.material, Top.remaining,
                        NRatio(Top.comps.val),
                        RInt(Top.comps.val.normalv * Top.comps.val.eyev))
    /\ stack' = SetTop([Top EXCEPT !.step = "shade_hit",
                                   !.refracted_color = Black])
    /\ UNCHANGED <<world, returned, calls, arg, xs, res, pc>>

\* refracted_color calls color_at
RefractedColorCast ==
    /\ pc = "color_at" /\ stack # <<>> /\ Top.step = "refracted_color"
    /\ ~RefractedIsBlack(Top.comps.val.object.material, Top.remaining,
                         NRatio(Top.comps.val),
                         RInt(Top.comps.val.normalv * Top.comps.val.eyev))
    /\ stack' = Append(
           SetTop([Top EXCEPT !.step = "refracted_color_wait",
                              !.casts.refracted = @ + 1]),
           Frame(RefractedRay(Top.comps.val),
                 RefractedRemaining(Top.remaining), "refracted_color"))
    /\ calls' = calls + 1
    /\ UNCHANGED <<world, returned, arg, xs, res, pc>>

\* the end of shade_hit: the sum or the Schlick blend
ShadeHit ==
    /\ pc = "color_at" /\ stack # <<>> /\ Top.step = "shade_hit"
    /\ stack' = SetTop([Top EXCEPT
           !.step = "return",
           !.color = ShadeHitColor(Top.comps.val, Top.surface_color,
                                   Top.reflected_color, Top.refracted_color)])
    /\ UNCHANGED <<world, returned, calls, arg, xs, res, pc>>

\* a color_at called by reflected_color returns: the caller scales the color
ReturnToReflectedColor ==
    /\ pc = "color_at" /\ Len(stack) > 1 /\ Top.step = "return"
    /\ Top.via = "reflected_color"
    /\ LET caller == stack[Len(stack) - 1]
       IN  stack' = Append(SubSeq(stack, 1, Len(stack) - 2),
               [caller EXCEPT
                   !.step = "refracted_color",
                   !.got.reflected = Top.color,
                   !.reflected_color =
                       ReflectedScale(Top.color, caller.comps.val.object.material)])
    /\ UNCHANGED <<world, returned, calls, arg, xs, res, pc>>

\* a color_at called by refracted_color returns: the caller scales the color
ReturnToRefractedColor ==
    /\ pc = "color_at" /\ Len(stack) > 1 /\ Top.step = "return"
    /\ Top.via = "refracted_color"
    /\ LET caller == stack[Len(stack) - 1]
       IN  stack' = Append(SubSeq(stack, 1, Len(stack) - 2),
               [caller EXCEPT
                   !.step = "shade_hit",
                   !.got.refracted = Top.color,
                   !.refracted_color =
                       RefractedScale(Top.color, caller.comps.val.object.material)])
    /\ UNCHANGED <<world, returned, calls, arg, xs, res, pc>>

\* the outermost color_at returns
ReturnToCaller ==
    /\ pc = "color_at" /\ Len(stack) = 1 /\ Top.step = "return"
    /\ returned' = Top.color
    /\ pc' = "done"
    /\ UNCHANGED <<world, stack, calls, arg, xs, res>>

Next ==
    \/ ColorAtBlack
    \/ ColorAtShade
    \/ ReflectedColorBlack
    \/ ReflectedColorCast
    \/ RefractedColorBlack
    \/ RefractedColorCast
    \/ ShadeHit
    \/ ReturnToReflectedColor
    \/ ReturnToRefractedColor
    \/ ReturnToCaller

Spec == Init /\ [][Next]_vars

----------------------------------------------------------------------------
(* Ray::intersect_world and World::is_shadowed on their own.               *)

ProbeLights == {[position |-> y, intensity |-> White] : y \in {-18, 2, 12}}

ProbeWorlds ==
    {[objects |-> Numbered(f), light |-> l] :
        f \in SeqUpTo(WorldShapes, MaxObjects), l \in ProbeLights}

ProbePoints == {-21, -14, -9, -5, -3, 0, 3, 5, 9, 14}

InitProbe ==
    /\ world \in ProbeWorlds
    /\ stack = <<>>
    /\ returned = NoColor
    /\ calls = 0
    /\ \E y \in ProbePoints, d \in {-1, 1} : arg = Ray(y, d)
    /\ xs = <<>>
    /\ res = None
    /\ pc \in {"intersect_world", "is_shadowed"}

IntersectWorldCall ==
    /\ pc = "intersect_world"
    /\ xs' = IntersectWorld(arg, world)
    /\ pc' = "intersected"
    /\ UNCHANGED <<world, stack, returned, calls, arg, res>>

\* is_shadowed(&arg.origin)
IsShadowedCall ==
    /\ pc = "is_shadowed"
    /\ res' = Some(IsShadowed(world, arg.origin))
    /\ pc' = "shadow_tested"
    /\ UNCHANGED <<world, stack, returned, calls, arg, xs>>

NextProbe == IntersectWorldCall \/ IsShadowedCall

SpecProbe == InitProbe /\ [][NextProbe]_vars

----------------------------------------------------------------------------
(* World::refracted_color's early returns, for rays that leave the axis:   *)
(* normalv and eyev are unit vectors <<x, y>> with rational components.    *)

Dot(a, b) == RAdd(RMul(a[1], b[1]), RMul(a[2], b[2]))

UnitVectors ==
    {<<RInt(0), RInt(1)>>, <<Rat(3, 5), Rat(4, 5)>>,
     <<Rat(4, 5), Rat(3, 5)>>, <<RInt(1), RInt(0)>>}

Indices == {RInt(1), Rat(3, 2), RInt(2)}

InitRefraction ==
    /\ world = NoWorld
    /\ stack = <<>>
    /\ returned = NoColor
    /\ calls = 0
    /\ \E n1 \in Indices, n2 \in Indices, e \in UnitVectors,
          tr \in {RInt(0), Rat(1, 2), RInt(1)}, n \in 0..MaxRemaining :
         arg = [comps |-> [n1 |-> n1, n2 |-> n2,
                           normalv |-> <<RInt(0), RInt(1)>>, eyev |-> e,
                           object |-> [material |->
                                          [Glass(n2) EXCEPT !.transparency = tr]]],
                remaining |-> n]
    /\ xs = <<>>
    /\ res = None
    /\ pc = "refracted_color"

\* refracted_color up to the call of color_at: res tells whether it
\* returned black before casting a ray
RefractedColorCall ==
    /\ pc = "refracted_color"
    /\ res' = Some(RefractedIsBlack(arg.comps.object.material, arg.remaining,
                                    NRatio(arg.comps),
                                    Dot(arg.comps.normalv, arg.comps.eyev)))
    /\ pc' = "done"
    /\ UNCHANGED <<world, stack, returned, calls, arg, xs>>

NextRefraction == RefractedColorCall

SpecRefraction == InitRefraction /\ [][NextRefraction]_vars

----------------------------------------------------------------------------
(* C1.  Intersection::hit returns the intersection with the smallest t     *)
(* among those with t > 0, and None exactly when no intersection has       *)
(* t > 0; an intersection with t <= 0 is never returned.                   *)

HitReturnsNearestPositive ==
    pc = "done" =>
        /\ res.some <=> \E k \in 1..Len(arg) : arg[k].t > 0
        /\ res.some =>
            /\ \E k \in 1..Len(arg) : arg[k] = res.val
            /\ res.val.t > 0
            /\ \A k \in 1..Len(arg) : arg[k].t > 0 => res.val.t <= arg[k].t

HitWitness ==
    /\ pc = "done"
    /\ res.some
    /\ \E j, k \in 1..Len(arg) : arg[j].t <= 0 /\ arg[k].t > res.val.t

----------------------------------------------------------------------------
(* Frames of the color_at machine.                                         *)

Frames == {stack[k] : k \in 1..Len(stack)}

\* the calls that went past `let hits = ray.intersect_world(&self)`
Started == {f \in Frames : f.step # "color_at"}

\* the calls whose reflected_color has returned
PastReflected ==
    {f \in Frames : f.step \in {"refracted_color", "refracted_color_wait",
                                "shade_hit", "return"} /\ f.comps.some}

\* the calls whose refracted_color has returned
PastRefracted == {f \in Frames : f.step \in {"shade_hit", "return"} /\ f.comps.some}

\* the calls whose shade_hit has returned
Shaded == {f \in Frames : f.step = "return" /\ f.comps.some}

PositiveTs(hits) == {hits[i].t : i \in {j \in 1..Len(hits) : hits[j].t > 0}}

----------------------------------------------------------------------------
(* C2.  color_at returns black when the ray has no intersection with       *)
(* t > 0, and otherwise shades the intersection with the smallest t > 0;   *)
(* it never shades an intersection with t <= 0.                            *)

ColorAtShadesNearestPositive ==
    \A f \in Started :
        /\ PositiveTs(f.hits) = {} =>
              ~f.comps.some /\ (f.step = "return" => f.color = Black)
        /\ PositiveTs(f.hits) # {} =>
              /\ f.comps.some
              /\ f.comps.val.t > 0
              /\ \A t \in PositiveTs(f.hits) : f.comps.val.t <= t

----------------------------------------------------------------------------
(* C3.  color_at terminates for every remaining >= 0: each nested call     *)
(* gets a strictly smaller, non-negative remaining, so at most             *)
(* remaining + 1 calls are ever active, and the outermost call returns.    *)

ColorAtDepthBounded ==
    /\ Len(stack) <= arg.remaining + 1
    /\ \A k \in 1..Len(stack) : stack[k].remaining >= 0
    /\ \A k \in 2..Len(stack) : stack[k].remaining < stack[k - 1].remaining

RECURSIVE TwoToThe(_)
TwoToThe(n) == IF n = 0 THEN 1 ELSE 2 * TwoToThe(n - 1)

\* the guards of the actions of Next, without the test each pair of actions
\* splits on: the innermost call is at a step that some action takes
CanStep ==
    /\ pc = "color_at" /\ stack # <<>>
    /\ \/ Top.step = "color_at"
       \/ Top.step \in {"reflected_color", "refracted_color", "shade_hit"}
          /\ Top.comps.some
       \/ Top.step = "return" /\ Len(stack) > 1
          /\ Top.via \in {"reflected_color", "refracted_color"}
       \/ Top.step = "return" /\ Len(stack) = 1

\* the depth is bounded, so is the number of calls (each call makes at
\* most two), and as long as the outermost call has not returned the
\* innermost one can take a step
ColorAtTerminates ==
    /\ ColorAtDepthBounded
    /\ calls <= TwoToThe(arg.remaining + 1) - 1
    /\ pc = "done" \/ CanStep

\* two facing mirrors, the ray between them, at the deepest call allowed
FacingMirrorsWitness ==
    /\ Len(world.objects) = 2
    /\ \A k \in 1..2 : world.objects[k].kind = "plane"
                       /\ world.objects[k].material = Mirror
    /\ world.objects[1].transform # world.objects[2].transform
    /\ arg.remaining = MaxRemaining
    /\ Len(stack) = arg.remaining + 1
    /\ Top.remaining = 0
    /\ Top.step = "reflected_color"

----------------------------------------------------------------------------
(* C5.  intersect_world returns exactly the intersections of the ray with  *)
(* every top-level shape, ordered by non-decreasing t.                     *)

\* how often x occurs in the list
Count(list, x) == Cardinality({i \in 1..Len(list) : list[i] = x})

\* how often x occurs among the per-shape results of Ray::intersect
CountPerShape(ray, w, x) ==
    Cardinality({jk \in (1..Len(w.objects)) \X (1..2) :
        LET one == RayIntersect(ray, w.objects[jk[1]])
        IN  jk[2] <= Len(one) /\ one[jk[2]] = x})

PerShape(ray, w) ==
    UNION {{RayIntersect(ray, w.objects[j])[k] :
              k \in 1..Len(RayIntersect(ray, w.objects[j]))} :
           j \in 1..Len(w.objects)}

IntersectWorldIsSortedUnion ==
    pc = "intersected" =>
        /\ \A i \in 1..(Len(xs) - 1) : xs[i].t <= xs[i + 1].t
        /\ \A x \in PerShape(arg, world) \cup {xs[i] : i \in 1..Len(xs)} :
              Count(xs, x) = CountPerShape(arg, world, x)

\* two shapes hit, the later one in the list hit first
IntersectWorldWitness ==
    /\ pc = "intersected"
    /\ Len(xs) >= 3
    /\ xs[1].object.id > xs[Len(xs)].object.id

----------------------------------------------------------------------------
(* C6.  reflected_color returns black without calling color_at when        *)
(* reflective == 0 or remaining == 0; otherwise it calls color_at exactly  *)
(* once, with a ray from over_point along reflectv and remaining - 1, and  *)
(* returns that color scaled by reflective.                                *)

ReflectedColorContract ==
    /\ \A f \in PastReflected :
          LET m == f.comps.val.object.material
          IN  IF RIsZero(m.reflective) \/ f.remaining = 0
              THEN f.casts.reflected = 0 /\ f.reflected_color = Black
              ELSE /\ f.casts.reflected = 1
                   /\ f.reflected_color = RMul(f.got.reflected, m.reflective)
    /\ \A k \in 2..Len(stack) :
          stack[k].via = "reflected_color" =>
              LET f == stack[k - 1]
              IN  /\ f.step = "reflected_color_wait"
                  /\ f.casts.reflected = 1
                  /\ ~RIsZero(f.comps.val.object.material.reflective)
                  /\ f.remaining # 0
                  /\ stack[k].ray.origin = f.comps.val.over_point
                  /\ stack[k].ray.direction = f.comps.val.reflectv
                  /\ stack[k].remaining = f.remaining - 1

\* a reflection that came back with a color and was scaled by a
\* reflective that is neither 0 nor 1
ReflectedColorWitness ==
    \E f \in PastReflected :
        /\ f.casts.reflected = 1
        /\ f.got.reflected # Black
        /\ f.reflected_color # f.got.reflected

----------------------------------------------------------------------------
(* C7.  refracted_color returns black without calling color_at when        *)
(* transparency == 0 or remaining == 0; otherwise, without total internal  *)
(* reflection, it calls color_at exactly once, with a ray from under_point *)
(* and remaining - 1, and returns that color scaled by transparency.  (On  *)
(* the axis cos_i is 1, so there is no total internal reflection.)         *)

----------------------------------------------------------------------------
(* C8.  refracted_color computes n_ratio as n1 / n2 and                    *)
(* sin2_t = n_ratio^2 * (1 - cos_i^2) with cos_i = normalv . eyev; among   *)
(* calls with transparency > 0 and remaining > 0 it returns black without  *)
(* casting a ray exactly when sin2_t > 1.                                  *)

RefractedBlackIffTotalInternalReflection ==
    pc = "done" /\ RPos(arg.comps.object.material.transparency)
                /\ arg.remaining > 0 =>
        LET n_ratio == RDiv(arg.comps.n1, arg.comps.n2)
            cos_i == Dot(arg.comps.normalv, arg.comps.eyev)
            sin2_t == RMul(RMul(n_ratio, n_ratio),
                           RSub(RInt(1), RMul(cos_i, cos_i)))
        IN  res.val <=> RLt(RInt(1), sin2_t)

----------------------------------------------------------------------------
(* C9.  is_shadowed(p) is true if and only if the ray from p toward the    *)
(* light meets some shape of the world at a t with                         *)
(* 0 < t < distance(p, light).                                             *)

\* the intersections of the ray from p toward the light, shape by shape
TowardLight(p, w) ==
    PerShape(Ray(p, IF w.light.position > p THEN 1 ELSE -1), w)

IsShadowedIffBlockerBeforeLight ==
    pc = "shadow_tested" =>
        (res.val <=>
            \E x \in TowardLight(arg.origin, world) :
                0 < x.t /\ x.t < Abs(world.light.position - arg.origin))

\* not shadowed, with one surface behind p and another beyond the light
IsShadowedWitness ==
    /\ pc = "shadow_tested"
    /\ ~res.val
    /\ \E x, y \in TowardLight(arg.origin, world) :
          x.t < 0 /\ y.t > Abs(world.light.position - arg.origin)

----------------------------------------------------------------------------
(* C10.  shade_hit returns surface + reflected * R + refracted * (1 - R),  *)
(* R the Schlick reflectance, when the material has transparency > 0 and   *)
(* reflective > 0, and surface + reflected + refracted otherwise; surface  *)
(* is the lighting with in_shadow = is_shadowed(over_point), and           *)
(* reflected and refracted are computed with shade_hit's own remaining.    *)

ShadeHitContract ==
    /\ \A f \in Shaded :
          LET c == f.comps.val
              m == c.object.material
              R == Schlick(c)
          IN  /\ f.is_shadowed = IsShadowed(world, c.over_point)
              /\ f.surface_color =
                    Lighting(m, world.light, c.point, c.eyev, c.normalv, f.is_shadowed)
              /\ f.color =
                    IF RPos(m.transparency) /\ RPos(m.reflective)
                    THEN RAdd(RAdd(f.surface_color, RMul(f.reflected_color, R)),
                              RMul(f.refracted_color, RSub(RInt(1), R)))
                    ELSE RAdd(RAdd(f.surface_color, f.reflected_color),
                              f.refracted_color)
    /\ \A k \in 2..Len(stack) : stack[k].remaining = stack[k - 1].remaining - 1

\* a blended hit whose reflected and refracted colors differ and whose
\* reflectance is strictly between 0 and 1
ShadeHitWitness ==
    \E f \in Shaded :
        /\ RPos(f.comps.val.object.material.transparency)
        /\ RPos(f.comps.val.object.material.reflective)
        /\ RPos(Schlick(f.comps.val))
        /\ f.reflected_color # Black
        /\ f.refracted_color # Black
        /\ f.reflected_color # f.refracted_color

----------------------------------------------------------------------------
(* C4.  Intersection::precompute sets n1 to the refractive index of the    *)
(* most recently entered shape not yet exited just before the target       *)
(* intersection is processed (1.0 if none is open), and n2 to the same     *)
(* quantity just after the target's shape has been toggled.                *)

\* the shapes entered and not yet exited after the first k intersections,
\* in the order they were entered; a shape is the object it is, whatever
\* other shape has the same transform
RECURSIVE OpenAfter(_, _)
OpenAfter(list, k) ==
    IF k = 0 THEN <<>>
    ELSE LET open == OpenAfter(list, k - 1)
             o == list[k].object
         IN  IF \E j \in 1..Len(open) : open[j].id = o.id
             THEN SelectSeq(open, LAMBDA x : x.id # o.id)
             ELSE Append(open, o)

PrecomputeTracksOpenShapes ==
    pc = "done" =>
        /\ res.n1 = RefractiveIndexOfLast(OpenAfter(xs, arg.k - 1))
        /\ res.n2 = RefractiveIndexOfLast(OpenAfter(xs, arg.k))

\* the same, on rays none of whose shapes share a transform
DistinctTransforms ==
    \A i, j \in 1..Len(world.objects) :
        world.objects[i].transform = world.objects[j].transform => i = j

PrecomputeTracksOpenShapesOfDistinctTransforms ==
    DistinctTransforms => PrecomputeTracksOpenShapes

\* test_glass_sphere: the six intersections of the ray from (0, 0, -4)
GlassSphereExample ==
    /\ pc = "done"
    /\ world.objects = Numbered(<<GlassA, GlassB, GlassC>>)
    /\ arg.ray = Ray(-16, 1)
    => <<res.n1, res.n2>> =
          <<<<RInt(1), Rat(3, 2)>>, <<Rat(3, 2), RInt(2)>>,
            <<RInt(2), Rat(5, 2)>>, <<Rat(5, 2), Rat(5, 2)>>,
            <<Rat(5, 2), Rat(3, 2)>>, <<Rat(3, 2), RInt(1)>>>>[arg.k]

----------------------------------------------------------------------------
(* C11.  In every Precompute, inside is true exactly when the shape's      *)
(* outward normal at the hit point has a negative dot product with         *)
(* eyev = -ray.direction; the stored normalv is the negated normal in that *)
(* case and the normal itself otherwise, so normalv . eyev >= 0.           *)

\* the shape's outward normal at the point of the target intersection
OutwardNormal == NormalAt(xs[arg.k].object, Position(arg.ray, xs[arg.k].t))

PrecomputeInsideIffNormalAgainstEye ==
    pc = "done" =>
        /\ res.eyev = 0 - arg.ray.direction
        /\ res.inside <=> OutwardNormal * res.eyev < 0
        /\ res.normalv = IF res.inside THEN 0 - OutwardNormal ELSE OutwardNormal
        /\ res.normalv * res.eyev >= 0

\* a hit from inside a sphere: the normal was flipped
PrecomputeInsideWitness ==
    /\ pc = "done"
    /\ res.inside
    /\ res.normalv = 0 - OutwardNormal
    /\ res.t > 0

----------------------------------------------------------------------------
(* C12.  In every Precompute, over_point = point + normalv * EPSILON and   *)
(* under_point = point - normalv * EPSILON for the normalv stored in the   *)
(* Precompute, so over_point lies on the side of the surface that faces    *)
(* the eye and under_point on the other side.                              *)

PrecomputeOverPointFacesEye ==
    pc = "done" =>
        /\ res.over_point = res.point + res.normalv * EPSILON
        /\ res.under_point = res.point - res.normalv * EPSILON
        /\ (res.over_point - res.point) * res.eyev > 0
        /\ (res.under_point - res.point) * res.eyev < 0

\* what the code does: both points are offset along the outward normal
PrecomputeOverPointAlongOutwardNormal ==
    pc = "done" =>
        /\ res.over_point = res.point + OutwardNormal * EPSILON
        /\ res.under_point = res.point - OutwardNormal * EPSILON

----------------------------------------------------------------------------
(* Ray::intersect on a group.                                              *)

MaxChildren == 2        \* most children of a group

\* IDENTITY_MATRIX, in the unit of length of the model (1/4)
IDENTITY_MATRIX == Transform(0, 0, 4)

\* Shape::group() with the children its Intersectable holds
Group(id, children) ==
    [id |-> id, kind |-> "group", transform |-> IDENTITY_MATRIX,
     material |-> MaterialNew, children |-> children]

\* the spheres of test_group_intersect_hits (the third one is beside the
\* ray), and a plane
GroupChildren ==
    {[kind |-> "sphere", transform |-> IDENTITY_MATRIX, material |-> MaterialNew],
     [kind |-> "sphere", transform |-> Transform(0, -12, 4), material |-> MaterialNew],
     [kind |-> "sphere", transform |-> Transform(20, 0, 4), material |-> MaterialNew],
     [kind |-> "sphere", transform |-> Transform(3, 0, 5), material |-> MaterialNew],
     [kind |-> "plane", transform |-> Transform(0, 8, 4), material |-> MaterialNew]}

Groups == {Group(0, Numbered(f)) : f \in SeqUpTo(GroupChildren, MaxChildren)}

GroupRays == {Ray(-20, 1), Ray(0, 1), Ray(20, -1)}

InitGroup ==
    /\ world = NoWorld
    /\ stack = <<>>
    /\ returned = NoColor
    /\ calls = 0
    /\ \E g \in Groups, r \in GroupRays : arg = [ray |-> r, shape |-> g]
    /\ xs = <<>>
    /\ res = None
    /\ pc = "intersect"

\* ray.intersect(shape)
IntersectCall ==
    /\ pc = "intersect"
    /\ xs' = RayIntersect(arg.ray, arg.shape)
    /\ pc' = "intersected"
    /\ UNCHANGED <<world, stack, returned, calls, arg, res>>

NextIntersect == IntersectCall

SpecGroup == InitGroup /\ [][NextIntersect]_vars

----------------------------------------------------------------------------
(* C13.  Ray::intersect on a group returns no intersections when the group *)
(* has no children or the ray misses the group's bounding box, and         *)
(* otherwise the concatenation, in child order, of Ray::intersect on each  *)
(* child.                                                                  *)

\* the ray runs along the axis x = 0: it misses the box around the children
\* when every child lies on one side of the axis (a plane is unbounded)
MissesBoundingBox(children) ==
    /\ \A k \in 1..Len(children) : children[k].kind = "sphere"
    /\ \/ \A k \in 1..Len(children) :
              children[k].transform.tx - children[k].transform.s > 0
       \/ \A k \in 1..Len(children) :
              children[k].transform.tx + children[k].transform.s < 0

RECURSIVE ConcatOfChildren(_, _)
ConcatOfChildren(ray, children) ==
    IF children = <<>> THEN <<>>
    ELSE RayIntersect(ray, Head(children)) \o ConcatOfChildren(ray, Tail(children))

GroupIntersectIsConcatenation ==
    pc = "intersected" /\ arg.shape.kind = "group" =>
        xs = IF arg.shape.children = <<>> \/ MissesBoundingBox(arg.shape.children)
             THEN <<>>
             ELSE ConcatOfChildren(arg.ray, arg.shape.children)

\* what the code does: a group yields no intersection, whatever it holds
GroupIntersectIsEmpty ==
    pc = "intersected" /\ arg.shape.kind = "group" => xs = <<>>

----------------------------------------------------------------------------
(* Shape::add_shape and Shape::add_group on shapes held through Arc.       *)
(* `world` is the heap: for every allocation its kind, its parent (0 for   *)
(* None), its children and its strong count, the number of Arc<Shape>      *)
(* that point to it.                                                       *)

MaxShapes == 3          \* allocations on the heap

Handles == 1..MaxShapes

\* Arc::new(Shape { parent: None, .. }), the one Arc held by the caller
Allocated(kind) == [kind |-> kind, parent |-> 0, children |-> <<>>, strong |-> 1]

\* the Arc `x` goes out of scope; an allocation whose count reaches 0 is
\* freed and gives up the Arc to its parent
RECURSIVE Drop(_, _)
Drop(heap, x) ==
    LET less == [heap EXCEPT ![x].strong = @ - 1]
    IN  IF less[x].strong = 0 /\ less[x].parent # 0
        THEN Drop([less EXCEPT ![x].parent = 0], less[x].parent)
        ELSE less

\* Arc::get_mut(&mut x) is Some exactly when no other Arc points to x
GetMut(heap, x) == heap[x].strong = 1

InitAdd ==
    /\ world \in [Handles -> {Allocated(k) : k \in {"group", "sphere"}}]
    /\ stack = <<>>
    /\ returned = NoColor
    /\ calls = 0
    /\ arg = None
    /\ xs = <<>>
    /\ res = None
    /\ pc = "idle"

\* the caller hands over its own Arc, or a clone of it, for each argument
AddCall ==
    /\ pc = "idle"
    /\ \E op \in {"add_shape", "add_group"}, g, x \in Handles,
          group_cloned, shape_cloned \in BOOLEAN :
          /\ g = x => group_cloned \/ shape_cloned
          /\ arg' = [op |-> op, group |-> g, shape |-> x]
          /\ world' =
               LET h == IF group_cloned
                        THEN [world EXCEPT ![g].strong = @ + 1] ELSE world
               IN  IF shape_cloned THEN [h EXCEPT ![x].strong = @ + 1] ELSE h
    /\ pc' = "set_parent"
    /\ UNCHANGED <<stack, returned, calls, xs, res>>

\* Arc::get_mut(&mut shape).unwrap().parent = Some(group.clone());
AddSetParent ==
    /\ pc = "set_parent"
    /\ IF GetMut(world, arg.shape)
       THEN /\ world' = [world EXCEPT ![arg.shape].parent = arg.group,
                                       ![arg.group].strong = @ + 1]
            /\ pc' = "push_child"
       ELSE /\ world' = Drop(Drop(world, arg.shape), arg.group)
            /\ pc' = "panicked"
    /\ UNCHANGED <<stack, returned, calls, arg, xs, res>>

\* Arc::get_mut(&mut group).unwrap().intersectable.add(shape);
\* Intersectable::add pushes the shape on the children of a group and does
\* nothing for any other kind
AddPushChild ==
    /\ pc = "push_child"
    /\ IF GetMut(world, arg.group)
       THEN /\ world' =
                 IF world[arg.group].kind = "group"
                 THEN Drop([world EXCEPT ![arg.group].children =
                                              Append(@, arg.shape)], arg.group)
                 ELSE Drop(Drop(world, arg.shape), arg.group)
            /\ pc' = "added"
       ELSE /\ world' = Drop(Drop(world, arg.shape), arg.group)
            /\ pc' = "panicked"
    /\ UNCHANGED <<stack, returned, calls, arg, xs, res>>

NextAdd == AddCall \/ AddSetParent \/ AddPushChild

SpecAdd == InitAdd /\ [][NextAdd]_vars

----------------------------------------------------------------------------
(* C14.  add_shape and add_group complete without panicking, and           *)
(* afterwards shape.parent refers to the group and the shape is the last   *)
(* of the group's children.                                                *)

AddShapeCompletes ==
    /\ pc # "panicked"
    /\ pc = "added" =>
          /\ world[arg.shape].parent = arg.group
          /\ world[arg.group].children # <<>>
          /\ world[arg.group].children[Len(world[arg.group].children)] = arg.shape

\* what the code does: the clone of `group` stored in shape.parent is a
\* second Arc to the group, so no call gets past Arc::get_mut(&mut group)
AddShapeNeverCompletes == pc # "added"

----------------------------------------------------------------------------
(* Matrix4, Matrix3, Matrix2.  A matrix is members[i][j] with indices from *)
(* 0; the entries given to inverse are integers, those of an inverse       *)
(* rationals.                                                              *)

FromRows(rows) ==
    [i \in 0..(Len(rows) - 1) |->
        [j \in 0..(Len(rows[1]) - 1) |-> rows[i + 1][j + 1]]]

Size(m) == Cardinality(DOMAIN m)

\* the k-th index that passes `not != index`
Kept(not, k) == IF k < not THEN k ELSE k + 1

\* Matrix4::submatrix and Matrix3::submatrix:
\* result.members[x][y] = self.members[col][row], x counting the col that
\* differ from not_col and y the row that differ from not_row
Submatrix(m, not_col, not_row) ==
    [x \in 0..(Size(m) - 2) |->
        [y \in 0..(Size(m) - 2) |-> m[Kept(not_col, x)][Kept(not_row, y)]]]

\* Matrix2::determinant
Determinant2(m) == m[0][0] * m[1][1] - m[1][0] * m[0][1]

\* Matrix3::cofactor: the test is `col + row % 2 == 0`
Cofactor3(m, col, row) ==
    LET minor == Determinant2(Submatrix(m, col, row))
    IN  IF col + (row % 2) = 0 THEN minor ELSE minor * (-1)

\* Matrix3::determinant
Determinant3(m) ==
    m[0][0] * Cofactor3(m, 0, 0) + m[0][1] * Cofactor3(m, 0, 1)
        + m[0][2] * Cofactor3(m, 0, 2)

\* Matrix4::cofactor: the test is `(col + row) % 2 == 0`
Cofactor(m, col, row) ==
    LET minor == Determinant3(Submatrix(m, col, row))
    IN  IF (col + row) % 2 = 0 THEN minor ELSE minor * (-1)

\* Matrix4::determinant
Determinant(m) ==
    m[0][0] * Cofactor(m, 0, 0) + m[0][1] * Cofactor(m, 0, 1)
        + m[0][2] * Cofactor(m, 0, 2) + m[0][3] * Cofactor(m, 0, 3)

InvertibleAlways(m) == TRUE

\* Matrix4::invertible
Invertible(m) == Determinant(m) # 0

\* f64 division: x / 0.0 is an infinity (<<1, 0>>, <<-1, 0>>) or NaN (<<0, 0>>)
FDiv(n, d) == IF d # 0 THEN Rat(n, d) ELSE <<Sign(n), 0>>

InverseEntryUntransposed(m, row, col, determinant) ==
    FDiv(Cofactor(m, row, col), determinant)

\* result.members[row][col] = self.cofactor(col, row) / determinant
InverseEntry(m, row, col, determinant) ==
    FDiv(Cofactor(m, col, row), determinant)

\* Matrix4::inverse, past the test that panics
Inverse(m) ==
    LET determinant == Determinant(m)
    IN  [row \in 0..3 |-> [col \in 0..3 |-> InverseEntry(m, row, col, determinant)]]

\* Matrix4::multiply, on rational entries
Multiply(a, b) ==
    [row \in 0..3 |-> [col \in 0..3 |->
        RAdd(RAdd(RMul(a[row][0], b[0][col]), RMul(a[row][1], b[1][col])),
             RAdd(RMul(a[row][2], b[2][col]), RMul(a[row][3], b[3][col])))]]

\* an integer matrix as a rational one
Exact(m) == [i \in DOMAIN m |-> [j \in DOMAIN m[i] |-> RInt(m[i][j])]]

----------------------------------------------------------------------------
(* Matrix4::inverse on its own.                                            *)

MaxEntry == 1           \* largest |entry| that varies in a matrix to invert

Entries == (0 - MaxEntry)..MaxEntry

\* the matrices inverted: four entries vary, which makes some of them
\* singular
MatricesToInvert ==
    {FromRows(<<<<2, p, 0, 1>>,
                <<q, 1, 3, 0>>,
                <<1, 0, r, 2>>,
                <<0, u, -1, 1>>>>) : p, q, r, u \in Entries}

\* the left factors: the identity, a matrix of test_matrix_4_inverse and a
\* singular matrix
LeftFactors ==
    {FromRows(<<<<1, 0, 0, 0>>, <<0, 1, 0, 0>>, <<0, 0, 1, 0>>, <<0, 0, 0, 1>>>>),
     FromRows(<<<<3, -9, 7, 3>>, <<3, -8, 2, -9>>, <<-4, 4, 4, 1>>, <<-6, 5, -1, 1>>>>),
     FromRows(<<<<1, 2, 0, 0>>, <<2, 4, 0, 0>>, <<0, 0, 1, 0>>, <<0, 0, 0, 0>>>>)}

InitInverse ==
    /\ world = NoWorld
    /\ stack = <<>>
    /\ returned = NoColor
    /\ calls = 0
    /\ \E a \in LeftFactors, b \in MatricesToInvert : arg = [a |-> a, b |-> b]
    /\ xs = <<>>
    /\ res = None
    /\ pc = "inverse"

\* arg.b.inverse()
InverseCall ==
    /\ pc = "inverse"
    /\ IF ~Invertible(arg.b)
       THEN res' = None /\ pc' = "panicked"
       ELSE res' = Some(Inverse(arg.b)) /\ pc' = "done"
    /\ UNCHANGED <<world, stack, returned, calls, arg, xs>>

NextInverse == InverseCall

SpecInverse == InitInverse /\ [][NextInverse]_vars

----------------------------------------------------------------------------
(* The determinant by the Leibniz formula, to compare the code with.       *)

IndexPermutations(n) ==
    {f \in [0..(n - 1) -> 0..(n - 1)] : \A i, j \in 0..(n - 1) : f[i] = f[j] => i = j}

Signature(f) ==
    IF Cardinality({ij \in (DOMAIN f) \X (DOMAIN f) : ij[1] < ij[2] /\ f[ij[1]] > f[ij[2]]})
           % 2 = 0
    THEN 1 ELSE -1

RECURSIVE Product(_, _, _)
Product(m, f, i) == IF i < 0 THEN 1 ELSE m[i][f[i]] * Product(m, f, i - 1)

RECURSIVE Sum(_, _)
Sum(f, S) ==
    IF S = {} THEN 0
    ELSE LET x == CHOOSE x \in S : TRUE IN f[x] + Sum(f, S \ {x})

Leibniz(m) ==
    LET P == IndexPermutations(Size(m))
    IN  Sum([f \in P |-> Signature(f) * Product(m, f, Size(m) - 1)], P)

\* m without row i and column j
Without(m, i, j) ==
    [x \in 0..(Size(m) - 2) |->
        [y \in 0..(Size(m) - 2) |->
            m[IF x < i THEN x ELSE x + 1][IF y < j THEN y ELSE y + 1]]]

\* the cofactor of the entry in row i and column j
CofactorOfEntry(m, i, j) ==
    (IF (i + j) % 2 = 0 THEN 1 ELSE -1) * Leibniz(Without(m, i, j))

IdentityMatrix == [i \in 0..3 |-> [j \in 0..3 |-> IF i = j THEN RInt(1) ELSE RInt(0)]]

----------------------------------------------------------------------------
(* C17.  Matrix4::inverse panics whenever the determinant of the matrix is *)
(* zero and returns a matrix only when it is not: no result comes from a   *)
(* division by a zero determinant.                                         *)

InversePanicsIffSingular ==
    /\ pc = "panicked" => Leibniz(arg.b) = 0
    /\ pc = "done" =>
          /\ Leibniz(arg.b) # 0
          /\ \A i, j \in 0..3 : res.val[i][j][2] # 0

\* a singular matrix that is not singular for a zero row: it panicked
InversePanicsWitness ==
    /\ pc = "panicked"
    /\ Leibniz(arg.b) = 0
    /\ \A i \in 0..3 : \E j \in 0..3 : arg.b[i][j] # 0

----------------------------------------------------------------------------
(* C18.  For every Matrix4 M with non-zero determinant, M * inverse(M) is  *)
(* the identity: entry [row][col] of the inverse is the cofactor of M's    *)
(* entry [col][row] divided by det M; and (A * B) * inverse(B) = A.        *)

InverseIsInverse ==
    pc = "done" =>
        /\ \A row, col \in 0..3 :
              res.val[row][col] = Rat(CofactorOfEntry(arg.b, col, row), Leibniz(arg.b))
        /\ Multiply(Exact(arg.b), res.val) = IdentityMatrix
        /\ Multiply(res.val, Exact(arg.b)) = IdentityMatrix
        /\ Multiply(Multiply(Exact(arg.a), Exact(arg.b)), res.val) = Exact(arg.a)

\* an inverse that is not symmetric and has entries that are not integers
InverseWitness ==
    /\ pc = "done"
    /\ \E i, j \in 0..3 : res.val[i][j] # res.val[j][i]
    /\ \E i, j \in 0..3 : res.val[i][j][2] > 1
    /\ arg.a # FromRows(<<<<1, 0, 0, 0>>, <<0, 1, 0, 0>>, <<0, 0, 1, 0>>, <<0, 0, 0, 1>>>>)

----------------------------------------------------------------------------
(* Shape::world_to_object through the parents of a shape.                  *)

Point(x, y, z, w) == [x |-> x, y |-> y, z |-> z, w |-> w]

\* point(x, y, z) with integer coordinates
ExactPoint(x, y, z) == Point(RInt(x), RInt(y), RInt(z), RInt(1))

\* Matrix4::multiply_point, on rational entries
MultiplyPoint(m, p) ==
    LET Row(i) == RAdd(RAdd(RMul(m[i][0], p.x), RMul(m[i][1], p.y)),
                       RAdd(RMul(m[i][2], p.z), RMul(m[i][3], p.w)))
    IN  Point(Row(0), Row(1), Row(2), Row(3))

\* the transforms of test_group_local_to_world_space (the rotation by
\* PI / 2 about y taken as exact) and a second translation
Translation(x, y, z) ==
    FromRows(<<<<1, 0, 0, x>>, <<0, 1, 0, y>>, <<0, 0, 1, z>>, <<0, 0, 0, 1>>>>)

Scaling(x, y, z) ==
    FromRows(<<<<x, 0, 0, 0>>, <<0, y, 0, 0>>, <<0, 0, z, 0>>, <<0, 0, 0, 1>>>>)

QuarterTurnY ==
    FromRows(<<<<0, 0, 1, 0>>, <<0, 1, 0, 0>>, <<-1, 0, 0, 0>>, <<0, 0, 0, 1>>>>)

MaxAncestors == 2       \* longest chain of parents above a shape

Transforms == {Translation(5, 0, 0), Translation(0, -3, 1), Scaling(2, 2, 2), QuarterTurnY}

\* a shape with the transforms <<own, parent's, ..., root's>>
RECURSIVE Nested(_)
Nested(transforms) ==
    [transform |-> Head(transforms),
     parent |-> IF Len(transforms) = 1 THEN None ELSE Some(Nested(Tail(transforms)))]

NestedShapes ==
    {Nested(f) : f \in SeqUpTo(Transforms, MaxAncestors + 1) \ {<<>>}}

WorldPoints == {ExactPoint(-2, 0, -10), ExactPoint(1, 2, 3), ExactPoint(0, 0, 0)}

RECURSIVE WorldToObjectOwnFirst(_, _)
WorldToObjectOwnFirst(shape, world_point) ==
    LET point == MultiplyPoint(Inverse(shape.transform), world_point)
    IN  IF shape.parent.some
        THEN WorldToObjectOwnFirst(shape.parent.val, point) ELSE point

\* Shape::world_to_object
RECURSIVE WorldToObject(_, _)
WorldToObject(shape, world_point) ==
    LET point == IF shape.parent.some
                 THEN WorldToObject(shape.parent.val, world_point)
                 ELSE world_point
    IN  MultiplyPoint(Inverse(shape.transform), point)

InitWorldToObject ==
    /\ world = NoWorld
    /\ stack = <<>>
    /\ returned = NoColor
    /\ calls = 0
    /\ \E sh \in NestedShapes, p \in WorldPoints : arg = [shape |-> sh, point |-> p]
    /\ xs = <<>>
    /\ res = None
    /\ pc = "world_to_object"

\* arg.shape.world_to_object(&arg.point)
WorldToObjectCall ==
    /\ pc = "world_to_object"
    /\ res' = Some(WorldToObject(arg.shape, arg.point))
    /\ pc' = "done"
    /\ UNCHANGED <<world, stack, returned, calls, arg, xs>>

NextWorldToObject == WorldToObjectCall

SpecWorldToObject == InitWorldToObject /\ [][NextWorldToObject]_vars

----------------------------------------------------------------------------
(* C15.  world_to_object applies the inverse transforms of the ancestors   *)
(* from the root down to the parent and then the shape's own inverse; for  *)
(* a shape without parent it is inverse(transform) * p, so that the        *)
(* forward transform gives back p.                                         *)

\* the forward transforms, from the shape's own up to the root's
RECURSIVE ObjectToWorld(_, _)
ObjectToWorld(shape, object_point) ==
    LET point == MultiplyPoint(Exact(shape.transform), object_point)
    IN  IF shape.parent.some THEN ObjectToWorld(shape.parent.val, point) ELSE point

WorldToObjectInvertsAncestors ==
    pc = "done" =>
        /\ ObjectToWorld(arg.shape, res.val) = arg.point
        /\ ~arg.shape.parent.some =>
              MultiplyPoint(Exact(arg.shape.transform), res.val) = arg.point

\* test_group_local_to_world_space: a translated sphere in a rotated group
\* in a scaled group
WorldToObjectWitness ==
    /\ pc = "done"
    /\ arg.shape = Nested(<<Translation(5, 0, 0), QuarterTurnY, Scaling(2, 2, 2)>>)
    /\ arg.point = ExactPoint(-2, 0, -10)
    /\ res.val = ExactPoint(0, 0, -1)

----------------------------------------------------------------------------
(* Point: add, sub, multiply_scalar, normalize, dot, cross on tuples with  *)
(* integer coordinates.                                                    *)

PointAdd(a, b) == Point(a.x + b.x, a.y + b.y, a.z + b.z, a.w + b.w)

PointSub(a, b) == Point(a.x - b.x, a.y - b.y, a.z - b.z, a.w - b.w)

PointMultiplyScalar(a, other) ==
    Point(a.x * other, a.y * other, a.z * other, a.w * other)

\* Point::divide_scalar: every coordinate of the result is a quotient
PointDivideScalar(a, other) ==
    Point(FDiv(a.x, other), FDiv(a.y, other), FDiv(a.z, other), FDiv(a.w, other))

\* Point::magnitude squared: w is part of the sum
Magnitude2(a) == a.x * a.x + a.y * a.y + a.z * a.z + a.w * a.w

IsSquare(n) == \E r \in 0..n : r * r = n

\* Point::normalize, for a tuple whose magnitude is an integer
PointNormalize(a) == PointDivideScalar(a, Sqrt(Magnitude2(a)))

PointDot(a, b) == a.x * b.x + a.y * b.y + a.z * b.z + a.w * b.w

PointCross(a, b) ==
    Point(a.y * b.z - a.z * b.y, a.z * b.x - a.x * b.z, a.x * b.y - a.y * b.x, 0)

MaxCoord == 1           \* largest |x| of a tuple

\* point(x, y, z) and vector(x, y, z)
Tuples ==
    {Point(x, y, z, w) : x \in (0 - MaxCoord)..MaxCoord, y \in {0, 1, 2},
                         z \in {0, 2}, w \in {0, 1}}

Scalars == {-1, 0, 2}

InitTuple ==
    /\ world = NoWorld
    /\ stack = <<>>
    /\ returned = NoColor
    /\ calls = 0
    /\ \E a, b \in Tuples, k \in Scalars,
          op \in {"add", "sub", "multiply_scalar", "normalize", "cross"} :
          /\ op \in {"multiply_scalar", "normalize"} => b = a
          /\ op # "multiply_scalar" => k = 0
          /\ op = "normalize" => IsSquare(Magnitude2(a))
          /\ arg = [op |-> op, a |-> a, b |-> b, k |-> k]
    /\ xs = <<>>
    /\ res = None
    /\ pc = "call"

\* arg.a.add(&arg.b)
AddPoints ==
    /\ pc = "call" /\ arg.op = "add"
    /\ res' = Some(PointAdd(arg.a, arg.b))
    /\ pc' = "done"
    /\ UNCHANGED <<world, stack, returned, calls, arg, xs>>

\* arg.a.sub(&arg.b)
SubPoints ==
    /\ pc = "call" /\ arg.op = "sub"
    /\ res' = Some(PointSub(arg.a, arg.b))
    /\ pc' = "done"
    /\ UNCHANGED <<world, stack, returned, calls, arg, xs>>

\* arg.a.multiply_scalar(arg.k)
MultiplyScalar ==
    /\ pc = "call" /\ arg.op = "multiply_scalar"
    /\ res' = Some(PointMultiplyScalar(arg.a, arg.k))
    /\ pc' = "done"
    /\ UNCHANGED <<world, stack, returned, calls, arg, xs>>

\* arg.a.normalize()
NormalizePoint ==
    /\ pc = "call" /\ arg.op = "normalize"
    /\ res' = Some(PointNormalize(arg.a))
    /\ pc' = "done"
    /\ UNCHANGED <<world, stack, returned, calls, arg, xs>>

\* arg.a.cross(&arg.b)
CrossPoints ==
    /\ pc = "call" /\ arg.op = "cross"
    /\ res' = Some(PointCross(arg.a, arg.b))
    /\ pc' = "done"
    /\ UNCHANGED <<world, stack, returned, calls, arg, xs>>

NextTuple == AddPoints \/ SubPoints \/ MultiplyScalar \/ NormalizePoint \/ CrossPoints

SpecTuple == InitTuple /\ [][NextTuple]_vars

----------------------------------------------------------------------------
(* C19.  For tuples with w = 0 (vector) or w = 1 (point), every result of  *)
(* add, sub, multiply_scalar, normalize and cross has w = 0 or w = 1:      *)
(* point - point is a vector, point +/- vector a point, cross a vector.    *)

\* the w of a result, as a rational
ResultW == IF arg.op = "normalize" THEN res.val.w ELSE RInt(res.val.w)

TupleOpsKeepPointOrVector ==
    pc = "done" =>
        /\ ResultW \in {RInt(0), RInt(1)}
        /\ arg.op = "sub" /\ arg.a.w = 1 /\ arg.b.w = 1 => res.val.w = 0
        /\ arg.op \in {"add", "sub"} /\ arg.a.w = 1 /\ arg.b.w = 0 =>
              res.val.w = 1
        /\ arg.op = "cross" => res.val.w = 0

\* what the code does: w is a fourth coordinate like the others
TupleOpsTreatWAsCoordinate ==
    pc = "done" =>
        /\ arg.op = "add" => res.val.w = arg.a.w + arg.b.w
        /\ arg.op = "sub" => res.val.w = arg.a.w - arg.b.w
        /\ arg.op = "multiply_scalar" => res.val.w = arg.a.w * arg.k
        /\ arg.op = "normalize" /\ Magnitude2(arg.a) # 0 =>
              RMul(RMul(res.val.w, res.val.w), RInt(Magnitude2(arg.a)))
                  = RInt(arg.a.w * arg.a.w)
        /\ arg.op = "cross" => res.val.w = 0

----------------------------------------------------------------------------
(* Ray::intersect on a triangle.                                           *)

\* Shape::triangle(p1, p2, p3): Intersectable::triangle keeps the corners
\* and the edges e1 = p2 - p1, e2 = p3 - p1
Triangle(id, p1, p2, p3) ==
    [id |-> id, kind |-> "triangle", transform |-> IDENTITY_MATRIX,
     material |-> MaterialNew, p1 |-> p1, p2 |-> p2, p3 |-> p3,
     e1 |-> PointSub(p2, p1), e2 |-> PointSub(p3, p1)]

MaxCorner == 2          \* largest |x| of a corner of a triangle

\* triangles across the axis x = z = 0 that the ray runs along, beside it,
\* with a corner or an edge on it, parallel to it, and degenerate ones
Triangles ==
    {Triangle(0, Point(a, 0, -1, 1), Point(b, h, -1, 1), Point(c, 0, 2, 1)) :
        a \in {0 - MaxCorner, 0, 1}, b \in {MaxCorner, -1}, c \in {0, 3},
        h \in {0, 4}}
    \cup {Triangle(0, Point(0, 4, 0, 1), Point(-4, 0, 0, 1), Point(4, 0, 0, 1)),
          Triangle(0, Point(0, 4, 0, 1), Point(0, 0, -4, 1), Point(0, 8, 4, 1))}

InitTriangle ==
    /\ world = NoWorld
    /\ stack = <<>>
    /\ returned = NoColor
    /\ calls = 0
    /\ \E t \in Triangles, r \in GroupRays \cup {Ray(5, 1), Ray(5, -1)} :
          arg = [ray |-> r, shape |-> t]
    /\ xs = <<>>
    /\ res = None
    /\ pc = "intersect"

SpecTriangle == InitTriangle /\ [][NextIntersect]_vars

----------------------------------------------------------------------------
(* C16.  Ray::intersect on a triangle returns exactly one intersection     *)
(* when the ray is not parallel to the triangle's plane (|det| >= EPSILON) *)
(* and 0 <= u <= 1, v >= 0 and u + v <= 1 for the barycentric coordinates, *)
(* and none in every other case.                                           *)

\* the ray of the model in space: it runs along the y axis
RayOrigin == Point(0, arg.ray.origin, 0, 1)

RayDirection == Point(0, arg.ray.direction, 0, 0)

\* det = e1 . (direction x e2), an integer here: |det| >= 0.00001 exactly
\* when it is not 0
TriangleDet == PointDot(arg.shape.e1, PointCross(RayDirection, arg.shape.e2))

\* u = (p1_to_origin . (direction x e2)) / det
TriangleU ==
    Rat(PointDot(PointSub(RayOrigin, arg.shape.p1),
                 PointCross(RayDirection, arg.shape.e2)), TriangleDet)

\* v = (direction . (p1_to_origin x e1)) / det
TriangleV ==
    Rat(PointDot(RayDirection,
                 PointCross(PointSub(RayOrigin, arg.shape.p1), arg.shape.e1)),
        TriangleDet)

RayMeetsTriangle ==
    /\ TriangleDet # 0
    /\ ~RLt(TriangleU, RInt(0))
    /\ ~RLt(RInt(1), TriangleU)
    /\ ~RLt(TriangleV, RInt(0))
    /\ ~RLt(RInt(1), RAdd(TriangleU, TriangleV))

TriangleIntersectIffInside ==
    pc = "intersected" /\ arg.shape.kind = "triangle" =>
        Len(xs) = IF RayMeetsTriangle THEN 1 ELSE 0

\* what the code does: a triangle yields no intersection
TriangleIntersectIsEmpty ==
    pc = "intersected" /\ arg.shape.kind = "triangle" => xs = <<>>

----------------------------------------------------------------------------
(* Canvas::render_ppm.  A string is the sequence of its characters; the    *)
(* text rendered is the sequence of its lines (the pieces that "\n" ends). *)

LineSize == 70          \* Canvas::chunks(pixels.join(" "), 70)

Rgb(red, green, blue) == [red |-> red, green |-> green, blue |-> blue]

\* utilities::clamp
Clamp(number, min, max) ==
    IF RLt(max, number) THEN max ELSE IF RLt(number, min) THEN min ELSE number

\* f64::round of a rational that is not negative
Round(r) == (2 * r[1] + r[2]) \div (2 * r[2])

\* format!("{}", n) for a whole number
RECURSIVE Decimal(_)
Decimal(n) ==
    LET digit == <<<<"0">>, <<"1">>, <<"2">>, <<"3">>, <<"4">>, <<"5">>, <<"6">>,
                   <<"7">>, <<"8">>, <<"9">>>>[(n % 10) + 1]
    IN  IF n < 10 THEN digit ELSE Decimal(n \div 10) \o digit

\* the number written for one channel
Channel(c) == Round(RMul(Clamp(c, RInt(0), RInt(1)), RInt(255)))

\* Color::ppm
Ppm(color) ==
    Decimal(Channel(color.red)) \o <<" ">> \o Decimal(Channel(color.green))
        \o <<" ">> \o Decimal(Channel(color.blue))

\* strings.join(" ")
RECURSIVE JoinSpaced(_)
JoinSpaced(strings) ==
    IF strings = <<>> THEN <<>>
    ELSE IF Len(strings) = 1 THEN strings[1]
    ELSE strings[1] \o <<" ">> \o JoinSpaced(Tail(strings))

\* string.trim_matches(' ')
RECURSIVE TrimMatches(_)
TrimMatches(string) ==
    IF string = <<>> THEN <<>>
    ELSE IF string[1] = " " THEN TrimMatches(Tail(string))
    ELSE IF string[Len(string)] = " "
         THEN TrimMatches(SubSeq(string, 1, Len(string) - 1))
    ELSE string

\* while string_chars[i] != ' ' { i = i - 1 }, i counting from 0; a row of
\* pixels has a space among any twelve characters
RECURSIVE WalkBack(_, _)
WalkBack(string_chars, i) ==
    IF string_chars[i + 1] # " " THEN WalkBack(string_chars, i - 1) ELSE i

\* Canvas::chunks
RECURSIVE Chunks(_, _)
Chunks(string, size) ==
    IF Len(string) > size
    THEN LET i == WalkBack(string, size - 1)
             beginning == SubSeq(string, 1, i)
             end == SubSeq(string, i + 1, Len(string))
         IN  Chunks(beginning, size) \o <<TrimMatches(end)>>
    ELSE <<TrimMatches(string)>>

\* the pixels of row i as strings
RowPpm(canvas, i) ==
    [j \in 1..canvas.width |-> Ppm(canvas.pixels[i * canvas.width + j])]

\* Canvas::pixels_to_ppm: the lines of row i and of the rows after it
RECURSIVE PixelsToPpm(_, _)
PixelsToPpm(canvas, i) ==
    IF i >= canvas.height THEN <<>>
    ELSE Chunks(JoinSpaced(RowPpm(canvas, i)), LineSize)
             \o PixelsToPpm(canvas, i + 1)

\* Canvas::render_ppm
RenderPpm(canvas) ==
    <<<<"P", "3">>,
      Decimal(canvas.width) \o <<" ">> \o Decimal(canvas.height),
      <<"2", "5", "5">>>> \o PixelsToPpm(canvas, 0)

MaxWidth == 14          \* widest canvas
MaxHeight == 2          \* highest canvas

\* the color of test_render_to_ppm_split_long_lines, black, a color out of
\* range and a grey
Palette ==
    <<Rgb(RInt(1), Rat(4, 5), Rat(3, 5)), Rgb(RInt(0), RInt(0), RInt(0)),
      Rgb(Rat(3, 2), Rat(1, 100), Rat(-1, 2)), Rgb(Rat(1, 2), Rat(1, 3), Rat(1, 25))>>

\* Canvas::empty(width, height) with every pixel written
Canvases ==
    {[width |-> w, height |-> h,
      pixels |-> [k \in 1..(w * h) |-> Palette[((k * step) % Len(Palette)) + 1]]] :
        w \in 1..MaxWidth, h \in 1..MaxHeight, step \in 0..3}

InitCanvas ==
    /\ world = NoWorld
    /\ stack = <<>>
    /\ returned = NoColor
    /\ calls = 0
    /\ arg \in Canvases
    /\ xs = <<>>
    /\ res = None
    /\ pc = "render_ppm"

\* arg.render_ppm()
RenderPpmCall ==
    /\ pc = "render_ppm"
    /\ res' = Some(RenderPpm(arg))
    /\ pc' = "done"
    /\ UNCHANGED <<world, stack, returned, calls, arg, xs>>

NextCanvas == RenderPpmCall

SpecCanvas == InitCanvas /\ [][NextCanvas]_vars

----------------------------------------------------------------------------
(* C20.  Every line of the text of render_ppm has at most 70 characters,   *)
(* for a canvas of any width and any colors; a row of pixels that is too   *)
(* long is split at spaces, without losing or reordering any value.        *)

\* the values written on a line: its pieces between spaces
Values(line) ==
    LET starts == {p \in 1..Len(line) :
                      line[p] # " " /\ (p = 1 \/ line[p - 1] = " ")}
        start(n) == CHOOSE p \in starts : Cardinality({q \in starts : q < p}) = n - 1
        stop(p) == CHOOSE q \in p..Len(line) :
                      /\ \A r \in p..q : line[r] # " "
                      /\ q = Len(line) \/ line[q + 1] = " "
    IN  [n \in 1..Cardinality(starts) |-> SubSeq(line, start(n), stop(start(n)))]

RECURSIVE ValuesOfLines(_)
ValuesOfLines(lines) ==
    IF lines = <<>> THEN <<>>
    ELSE Values(lines[1]) \o ValuesOfLines(Tail(lines))

\* the three numbers of every pixel, in the order of the pixels
ValuesOfPixels(pixels) ==
    [k \in 1..(3 * Len(pixels)) |->
        LET color == pixels[((k - 1) \div 3) + 1]
        IN  Decimal(Channel(<<color.red, color.green, color.blue>>[((k - 1) % 3) + 1]))]

RenderPpmKeepsValues ==
    pc = "done" =>
        ValuesOfLines(SubSeq(res.val, 4, Len(res.val))) = ValuesOfPixels(arg.pixels)

RenderPpmLinesAreShort ==
    /\ RenderPpmKeepsValues
    /\ pc = "done" => \A k \in 1..Len(res.val) : Len(res.val[k]) <= 70

\* what the code does: only the first piece of a row is cut to size, the
\* rest of the row is one line
RenderPpmSplitsRowsOnce ==
    pc = "done" => Len(res.val) <= 3 + 2 * arg.height

----------------------------------------------------------------------------
(* Canvas::empty, write_pixel and pixel_at, Camera::render and Dof::render.*)
(* pixels[k] of the model is pixels[k - 1] of the Vec<Color>.  What        *)
(* world.color_at(&camera.ray_for_pixel(x, y), 5) returns is an input: a   *)
(* world is given by the color it shows through every pixel of every view. *)

\* Color::black()
BlackPixel == Rgb(RInt(0), RInt(0), RInt(0))

\* Canvas::empty
CanvasEmpty(width, height) ==
    [width |-> width, height |-> height,
     pixels |-> [k \in 1..(width * height) |-> BlackPixel]]

\* Canvas::write_pixel
WritePixel(canvas, column, row, color) ==
    LET index == row * canvas.width + column
    IN  IF index < Len(canvas.pixels)
        THEN [canvas EXCEPT !.pixels[index + 1] = color]
        ELSE canvas

\* whether Canvas::pixel_at indexes past the end of the Vec and panics
PixelAtPanics(canvas, column, row) ==
    row * canvas.width + column >= Len(canvas.pixels)

\* Canvas::pixel_at, where it does not panic
PixelAt(canvas, column, row) == canvas.pixels[row * canvas.width + column + 1]

\* the shades a world can show
Shades ==
    <<Rgb(RInt(1), Rat(4, 5), Rat(3, 5)), Rgb(Rat(1, 2), Rat(1, 3), Rat(1, 25)),
      Rgb(Rat(1, 5), RInt(0), RInt(1))>>

\* world.color_at(&camera.ray_for_pixel(x, y), 5) for the camera at `view`
SceneColor(w, view, x, y) ==
    Shades[((w.base + w.dx * x + w.dy * y + w.dview * view) % Len(Shades)) + 1]

\* for y in 0..self.vsize - 1, from y on, for column x
RECURSIVE RenderColumn(_, _, _, _, _)
RenderColumn(camera, w, canvas, x, y) ==
    IF y >= camera.vsize - 1 THEN canvas
    ELSE RenderColumn(camera, w,
             WritePixel(canvas, x, y, SceneColor(w, camera.transform, x, y)),
             x, y + 1)

\* for x in 0..self.hsize - 1, from x on
RECURSIVE RenderColumns(_, _, _, _)
RenderColumns(camera, w, canvas, x) ==
    IF x >= camera.hsize - 1 THEN canvas
    ELSE RenderColumns(camera, w, RenderColumn(camera, w, canvas, x, 0), x + 1)

\* Camera::render
CameraRender(camera, w) ==
    RenderColumns(camera, w, CanvasEmpty(camera.hsize, camera.vsize), 0)

\* Color::add
ColorAdd(a, b) ==
    Rgb(RAdd(a.red, b.red), RAdd(a.green, b.green), RAdd(a.blue, b.blue))

\* Color::divide by a factor that is not zero
ColorDivide(a, factor) ==
    Rgb(RDiv(a.red, factor), RDiv(a.green, factor), RDiv(a.blue, factor))

\* the camera transform of take i: the view from `from` moved by 0.0005 * i
\* along x and y; a view is known by its i
JitteredView(i) == i

\* while i < self.takes { ...; self.canvases.push(self.camera.render(&world)) }
RECURSIVE DofTakes(_, _, _)
DofTakes(dof, w, i) ==
    IF i >= dof.takes THEN dof
    ELSE LET camera == [dof.camera EXCEPT !.transform = JitteredView(i)]
         IN  DofTakes([dof EXCEPT !.camera = camera,
                                  !.canvases = Append(@, CameraRender(camera, w))],
                      w, i + 1)

\* for canvas in &self.canvases { final_canvas.pixels[i] += pixel }
RECURSIVE DofSum(_, _)
DofSum(final_canvas, canvases) ==
    IF canvases = <<>> THEN final_canvas
    ELSE DofSum([final_canvas EXCEPT !.pixels =
                     [i \in DOMAIN @ |-> ColorAdd(@[i], canvases[1].pixels[i])]],
                Tail(canvases))

\* the tail of Dof::render: sum the canvases kept, divide by takes
DofAverage(dof) ==
    LET final_canvas ==
            DofSum(CanvasEmpty(dof.camera.hsize, dof.camera.vsize), dof.canvases)
    IN  [final_canvas EXCEPT !.pixels =
             [j \in DOMAIN @ |-> ColorDivide(@[j], RInt(dof.takes))]]

MaxHsize == 3           \* widest camera
MaxVsize == 3           \* highest camera
MaxTakes == 2           \* most takes of a Dof
MaxRenders == 2         \* most calls of Dof::render on one Dof

\* the worlds: what they show changes along x, along y and with the view
Scenes ==
    {[base |-> b, dx |-> dx, dy |-> dy, dview |-> dv] :
        b \in 0..1, dx \in 0..1, dy \in 0..1, dv \in 0..1}

\* Camera::new(hsize, vsize, _), its transform the view of take 0
Cameras ==
    {[hsize |-> h, vsize |-> v, transform |-> JitteredView(0)] :
        h \in 1..MaxHsize, v \in 1..MaxVsize}

\* Dof { camera, takes, canvases: Vec::new(), .. } as main builds it
InitDof ==
    /\ world \in Scenes
    /\ stack = <<>>
    /\ returned = NoColor
    /\ calls = 0
    /\ arg \in {[camera |-> c, takes |-> n, canvases |-> <<>>] :
                    c \in Cameras, n \in 1..MaxTakes}
    /\ xs = <<>>
    /\ res = None
    /\ pc = "render"

\* arg.render(&world)
DofRenderCall ==
    /\ pc = "render"
    /\ calls < MaxRenders
    /\ LET dof == DofTakes(arg, world, 0)
       IN  /\ arg' = dof
           /\ res' = Some(DofAverage(dof))
    /\ calls' = calls + 1
    /\ UNCHANGED <<world, stack, returned, xs, pc>>

NextDof == DofRenderCall

SpecDof == InitDof /\ [][NextDof]_vars

----------------------------------------------------------------------------
(* C21.  Each call of Dof::render returns a canvas in which every pixel is *)
(* the arithmetic mean of that pixel over exactly `takes` camera renders   *)
(* made during that call, on the first call and on every later one.        *)

\* the sum of pixel k over the renders of takes i..takes-1 of one call
RECURSIVE SumOfTakes(_, _)
SumOfTakes(k, i) ==
    IF i >= arg.takes THEN BlackPixel
    ELSE ColorAdd(CameraRender([arg.camera EXCEPT !.transform = JitteredView(i)],
                               world).pixels[k],
                  SumOfTakes(k, i + 1))

MeanOfTakes(k) == ColorDivide(SumOfTakes(k, 0), RInt(arg.takes))

\* C21: the canvas a call of Dof::render returned holds, in every pixel, the
\* mean of that pixel over the `takes` renders of the call
DofRenderIsMeanOfTakes ==
    calls >= 1 =>
        \A k \in DOMAIN res.val.pixels : res.val.pixels[k] = MeanOfTakes(k)

\* what the code does: the first call returns the mean; call number n returns
\* n times the mean, the canvases of the calls before being summed again
DofRenderIsMeanTimesCalls ==
    calls >= 1 =>
        /\ Len(arg.canvases) = calls * arg.takes
        /\ \A k \in DOMAIN res.val.pixels :
               res.val.pixels[k] = LET m == MeanOfTakes(k)
                                   IN  Rgb(RMul(RInt(calls), m.red),
                                           RMul(RInt(calls), m.green),
                                           RMul(RInt(calls), m.blue))

----------------------------------------------------------------------------
(* Camera::render on its own.                                              *)

InitCamera ==
    /\ world \in Scenes
    /\ stack = <<>>
    /\ returned = NoColor
    /\ calls = 0
    /\ arg \in Cameras
    /\ xs = <<>>
    /\ res = None
    /\ pc = "render"

\* arg.render(&world)
CameraRenderCall ==
    /\ pc = "render"
    /\ res' = Some(CameraRender(arg, world))
    /\ pc' = "done"
    /\ UNCHANGED <<world, stack, returned, calls, arg, xs>>

NextCamera == CameraRenderCall

SpecCamera == InitCamera /\ [][NextCamera]_vars

----------------------------------------------------------------------------
(* C26.  Camera::render writes the color_at result of ray_for_pixel(x, y)  *)
(* into the canvas for every pixel with 0 <= x < hsize and 0 <= y < vsize, *)
(* the last column and the last row included.                              *)

\* C26: every pixel of the canvas render returned holds the color the world
\* shows through it
CameraRenderWritesEveryPixel ==
    pc = "done" =>
        \A x \in 0..(arg.hsize - 1), y \in 0..(arg.vsize - 1) :
            PixelAt(res.val, x, y) = SceneColor(world, arg.transform, x, y)

\* what the code does: the last column and the last row keep the black of
\* Canvas::empty, every other pixel holds the color the world shows
CameraRenderSkipsLastColumnAndRow ==
    pc = "done" =>
        \A x \in 0..(arg.hsize - 1), y \in 0..(arg.vsize - 1) :
            PixelAt(res.val, x, y) =
                IF x = arg.hsize - 1 \/ y = arg.vsize - 1 THEN BlackPixel
                ELSE SceneColor(world, arg.transform, x, y)

----------------------------------------------------------------------------
(* Canvas::write_pixel on its own.                                         *)

MaxColumn == 3          \* widest canvas written to, and the largest column
MaxRow == 3             \* highest canvas written to, and the largest row

\* canvases with every pixel written, a column, a row and a color
WritePixelInputs ==
    {[canvas |-> [width |-> w, height |-> h,
                  pixels |-> [k \in 1..(w * h) |-> Shades[(k % 2) + 1]]],
      column |-> c, row |-> r, color |-> Shades[3]] :
        w \in 1..MaxColumn, h \in 1..MaxRow, c \in 0..MaxColumn, r \in 0..MaxRow}

InitWritePixel ==
    /\ world = NoWorld
    /\ stack = <<>>
    /\ returned = NoColor
    /\ calls = 0
    /\ arg \in WritePixelInputs
    /\ xs = <<>>
    /\ res = None
    /\ pc = "write_pixel"

\* arg.canvas.write_pixel(arg.column, arg.row, &arg.color)
WritePixelCall ==
    /\ pc = "write_pixel"
    /\ res' = Some(WritePixel(arg.canvas, arg.column, arg.row, arg.color))
    /\ pc' = "done"
    /\ UNCHANGED <<world, stack, returned, calls, arg, xs>>

NextWritePixel == WritePixelCall

SpecWritePixel == InitWritePixel /\ [][NextWritePixel]_vars

----------------------------------------------------------------------------
(* C27.  write_pixel(column, row, color) with column >= width or           *)
(* row >= height leaves every pixel unchanged and does not panic; with     *)
(* coordinates in range it changes only the pixel pixel_at(column, row)    *)
(* reads.                                                                  *)

InRange == arg.column < arg.canvas.width /\ arg.row < arg.canvas.height

\* C27: out of range nothing changes; in range the pixel that pixel_at reads
\* holds the color and no other pixel changes
WritePixelChangesOnlyItsPixel ==
    pc = "done" =>
        IF InRange
        THEN /\ PixelAt(res.val, arg.column, arg.row) = arg.color
             /\ \A c \in 0..(arg.canvas.width - 1), r \in 0..(arg.canvas.height - 1) :
                    <<c, r>> # <<arg.column, arg.row>> =>
                        PixelAt(res.val, c, r) = PixelAt(arg.canvas, c, r)
        ELSE res.val = arg.canvas

\* what the code does: the test is on row * width + column alone, so a column
\* past the last one writes into a later row while that row exists
WritePixelChangesPixelAtIndex ==
    pc = "done" =>
        LET index == arg.row * arg.canvas.width + arg.column
        IN  /\ index >= arg.canvas.width * arg.canvas.height => res.val = arg.canvas
            /\ index < arg.canvas.width * arg.canvas.height =>
                   /\ res.val.pixels[index + 1] = arg.color
                   /\ \A k \in DOMAIN res.val.pixels :
                          k # index + 1 => res.val.pixels[k] = arg.canvas.pixels[k]

----------------------------------------------------------------------------
(* Matrix3::cofactor and Matrix4::cofactor on their own.                   *)

\* Matrix3::minor
Minor3(m, col, row) == Determinant2(Submatrix(m, col, row))

\* Matrix4::minor
Minor(m, col, row) == Determinant3(Submatrix(m, col, row))

\* the matrices of test_matrix_3_cofactor and test_matrix_4_cofactor with two
\* of their entries replaced
MatricesOfCofactor ==
    {FromRows(<<<<3, 5, a>>, <<2, b, -7>>, <<6, -1, 5>>>>) : a, b \in Entries}
        \cup {FromRows(<<<<-2, -8, 3, 5>>, <<-3, a, 7, 3>>, <<1, 2, b, 6>>,
                         <<-6, 7, 7, -9>>>>) : a, b \in Entries}

InitCofactor ==
    /\ world = NoWorld
    /\ stack = <<>>
    /\ returned = NoColor
    /\ calls = 0
    /\ arg \in UNION {{[m |-> m, col |-> col, row |-> row] :
                          col \in DOMAIN m, row \in DOMAIN m} :
                      m \in MatricesOfCofactor}
    /\ xs = <<>>
    /\ res = None
    /\ pc = "cofactor"

\* Matrix3::cofactor(&arg.m, arg.col, arg.row)
Cofactor3Call ==
    /\ pc = "cofactor"
    /\ Size(arg.m) = 3
    /\ res' = Some(Cofactor3(arg.m, arg.col, arg.row))
    /\ pc' = "done"
    /\ UNCHANGED <<world, stack, returned, calls, arg, xs>>

\* Matrix4::cofactor(&arg.m, arg.col, arg.row)
Cofactor4Call ==
    /\ pc = "cofactor"
    /\ Size(arg.m) = 4
    /\ res' = Some(Cofactor(arg.m, arg.col, arg.row))
    /\ pc' = "done"
    /\ UNCHANGED <<world, stack, returned, calls, arg, xs>>

NextCofactor == Cofactor3Call \/ Cofactor4Call

SpecCofactor == InitCofactor /\ [][NextCofactor]_vars

----------------------------------------------------------------------------
(* C24.  For Matrix3 and for Matrix4, cofactor(i, j) is minor(i, j) when   *)
(* i + j is even and -minor(i, j) when i + j is odd, for every index pair. *)

MinorOfArg ==
    IF Size(arg.m) = 3 THEN Minor3(arg.m, arg.col, arg.row)
    ELSE Minor(arg.m, arg.col, arg.row)

SignedMinorOfArg ==
    IF (arg.col + arg.row) % 2 = 0 THEN MinorOfArg ELSE -MinorOfArg

\* C24: the cofactor returned is the minor with the sign of (-1)^(col + row)
CofactorIsSignedMinor == pc = "done" => res.val = SignedMinorOfArg

\* what the code does: Matrix4::cofactor is the signed minor; Matrix3::cofactor
\* tests col + (row % 2) and so returns the minor itself only for col = 0 and
\* an even row: at (1, 1), (2, 0) and (2, 2) the sign is the wrong one
Cofactor3NegatesOffFirstColumn ==
    pc = "done" =>
        IF Size(arg.m) = 3 /\ <<arg.col, arg.row>> \in {<<1, 1>>, <<2, 0>>, <<2, 2>>}
        THEN res.val = -SignedMinorOfArg
        ELSE res.val = SignedMinorOfArg

----------------------------------------------------------------------------
(* Shape == Shape on its own.                                              *)

\* Material::new() with another ambient
Bright == Material(Rat(1, 2), Rat(9, 10), Rat(9, 10), RInt(0), RInt(0), RInt(1))

\* spheres and planes of three transforms and three materials
ShapesToCompare ==
    {[kind |-> k, transform |-> t, material |-> m] :
        k \in {"sphere", "plane"},
        t \in {Transform(0, 0, 4), Transform(0, 0, 8), Transform(0, 1, 4)},
        m \in {MaterialNew, Bright, Glass(Rat(3, 2))}}

InitShapeEq ==
    /\ world = NoWorld
    /\ stack = <<>>
    /\ returned = NoColor
    /\ calls = 0
    /\ arg \in {Numbered(<<a, b>>) : a, b \in ShapesToCompare}
    /\ xs = <<>>
    /\ res = None
    /\ pc = "eq"

\* arg[1] == arg[2]
ShapeEqCall ==
    /\ pc = "eq"
    /\ res' = Some(ShapeEq(arg[1], arg[2]))
    /\ pc' = "done"
    /\ UNCHANGED <<world, stack, returned, calls, arg, xs>>

NextShapeEq == ShapeEqCall

SpecShapeEq == InitShapeEq /\ [][NextShapeEq]_vars

----------------------------------------------------------------------------
(* C28.  Two shapes compare equal only if both their transforms and their  *)
(* materials are equal within epsilon; two distinct shapes with the same   *)
(* transform but different materials are unequal.                          *)

\* C28: shapes that compare equal have equal transforms and equal materials
ShapeEqNeedsEqualMaterials ==
    (pc = "done" /\ res.val) =>
        /\ MatrixEqual(arg[1].transform, arg[2].transform)
        /\ MaterialEqual(arg[1].material, arg[2].material)

\* what the code does: shapes compare equal exactly when their transforms are
\* equal, whatever their materials and kinds
ShapeEqComparesTransforms ==
    pc = "done" => (res.val <=> MatrixEqual(arg[1].transform, arg[2].transform))

----------------------------------------------------------------------------
(* World::color_at called with any depth, negative ones included.  Every   *)
(* active call holds a frame of the thread's stack, which has room for     *)
(* MaxStack of them: the call that finds no room ends the process.  (The   *)
(* i32 reaches its lowest value and `remaining - 1` overflows only after   *)
(* 2^31 nested calls, far more than any stack holds.)                      *)

MaxBelow == 2           \* the lowest depth handed to color_at is -MaxBelow
MaxStack == 4           \* frames of color_at the thread's stack has room for

InitDepth ==
    /\ world \in Worlds
    /\ \E r \in CameraRays, n \in (0 - MaxBelow)..MaxRemaining :
         /\ arg = [ray |-> r, remaining |-> n]
         /\ stack = <<Frame(r, n, "caller")>>
    /\ returned = NoColor
    /\ calls = 1
    /\ xs = <<>>
    /\ res = None
    /\ pc = "color_at"

\* a step of color_at for which the stack has room
ColorAtStep ==
    /\ Next
    /\ Len(stack') <= MaxStack

\* reflected_color or refracted_color calls color_at and the stack is full
StackOverflow ==
    /\ pc = "color_at" /\ Len(stack) = MaxStack
    /\ \/ /\ Top.step = "reflected_color"
          /\ ~ReflectedIsBlack(Top.comps.val.object.material, Top.remaining)
       \/ /\ Top.step = "refracted_color"
          /\ ~RefractedIsBlack(Top.comps.val.object.material, Top.remaining,
                               NRatio(Top.comps.val),
                               RInt(Top.comps.val.normalv * Top.comps.val.eyev))
    /\ pc' = "aborted"
    /\ UNCHANGED <<world, stack, returned, calls, arg, xs, res>>

NextDepth == ColorAtStep \/ StackOverflow

SpecDepth == InitDepth /\ [][NextDepth]_vars

----------------------------------------------------------------------------
(* C30.  reflected_color and refracted_color return black without casting  *)
(* a ray for every remaining <= 0, not only for remaining = 0, so color_at *)
(* terminates for every depth, negative ones included.                     *)

\* C30: a call of color_at with remaining <= 0 has cast no ray, and the
\* process is never ended by the recursion
ColorAtCastsNothingBelowZero ==
    /\ \A f \in Frames :
           f.remaining <= 0 => f.casts.reflected = 0 /\ f.casts.refracted = 0
    /\ pc # "aborted"

\* what the code does from depth 0 up: the claim of C3, and no ray is cast
\* by a call with remaining = 0
ColorAtTerminatesFromZeroUp ==
    arg.remaining >= 0 =>
        /\ ColorAtTerminates
        /\ \A f \in Frames :
               f.remaining = 0 => f.casts.reflected = 0 /\ f.casts.refracted = 0
        /\ pc # "aborted"

\* what the code does below 0: remaining only moves away from 0, so the test
\* `remaining == 0` never holds and the depth of the recursion is the number
\* of bounces of the light
ColorAtBelowZeroNeverReachesZero ==
    arg.remaining < 0 =>
        /\ \A k \in 1..Len(stack) : stack[k].remaining = arg.remaining - (k - 1)
        /\ \A f \in PastReflected :
               ~RIsZero(f.comps.val.object.material.reflective) =>
                   f.casts.reflected = 1

\* facing mirrors and a negative depth: the recursion has filled the stack
FacingMirrorsFillTheStack ==
    /\ pc = "aborted"
    /\ arg.remaining < 0
    /\ Len(world.objects) = 2
    /\ \A k \in 1..2 : world.objects[k].material = Mirror

----------------------------------------------------------------------------
(* Bounds::hits.  An f64 is a rational, or a pair with denominator 0:      *)
(* INFINITY <<1, 0>>, -INFINITY <<-1, 0>> and NaN <<0, 0>>.  Points and    *)
(* vectors are triples; the origins and directions of the rays are whole   *)
(* numbers.                                                                *)

INFINITY == <<1, 0>>

NAN == <<0, 0>>

IsFinite(a) == a[2] # 0

\* a - b for a finite b
F64Sub(a, b) == IF IsFinite(a) THEN RSub(a, b) ELSE a

\* a / b for a finite b that is not zero
F64Div(a, b) == IF IsFinite(a) THEN RDiv(a, b) ELSE <<a[1] * Sign(b[1]), 0>>

\* a * INFINITY
F64TimesInfinity(a) == IF IsFinite(a) THEN <<Sign(a[1]), 0>> ELSE a

\* a < b: false when either is NaN
F64Lt(a, b) ==
    /\ a # NAN /\ b # NAN
    /\ \/ IsFinite(a) /\ IsFinite(b) /\ RLt(a, b)
       \/ IsFinite(a) /\ b = INFINITY
       \/ a = RNeg(INFINITY) /\ b # RNeg(INFINITY)

\* f64::max and f64::min: a NaN operand is ignored
F64Max(a, b) == IF a = NAN THEN b ELSE IF b = NAN THEN a ELSE IF F64Lt(a, b) THEN b ELSE a

F64Min(a, b) == IF a = NAN THEN b ELSE IF b = NAN THEN a ELSE IF F64Lt(b, a) THEN b ELSE a

\* utilities::max and utilities::min of three numbers
Max(numbers) == F64Max(F64Max(F64Max(NAN, numbers[1]), numbers[2]), numbers[3])

Min(numbers) == F64Min(F64Min(F64Min(NAN, numbers[1]), numbers[2]), numbers[3])

\* Bounds::new
Bounds(xmin, xmax, ymin, ymax, zmin, zmax) ==
    [min |-> <<xmin, ymin, zmin>>, max |-> <<xmax, ymax, zmax>>]

\* Bounds::check_axis; direction.abs() >= EPSILON is direction # 0 for a
\* direction that is a whole number
CheckAxis(origin, direction, min, max) ==
    LET tmin_numerator == F64Sub(min, RInt(origin))
        tmax_numerator == F64Sub(max, RInt(origin))
        tmin == IF direction # 0 THEN F64Div(tmin_numerator, RInt(direction))
                ELSE F64TimesInfinity(tmin_numerator)
        tmax == IF direction # 0 THEN F64Div(tmax_numerator, RInt(direction))
                ELSE F64TimesInfinity(tmax_numerator)
    IN  IF F64Lt(tmax, tmin) THEN <<tmax, tmin>> ELSE <<tmin, tmax>>

\* Bounds::hits
Hits(self, ray) ==
    LET axis == [i \in 1..3 |->
                    CheckAxis(ray.origin[i], ray.direction[i], self.min[i], self.max[i])]
        tmin == Max([i \in 1..3 |-> axis[i][1]])
        tmax == Min([i \in 1..3 |-> axis[i][2]])
    IN  F64Lt(tmin, tmax)

\* Intersectable::bounds_sphere and bounds_cube
BoundsSphere == Bounds(RInt(-1), RInt(1), RInt(-1), RInt(1), RInt(-1), RInt(1))

\* Intersectable::bounds_plane
BoundsPlane ==
    Bounds(RNeg(INFINITY), INFINITY, RInt(0), RInt(0), RNeg(INFINITY), INFINITY)

\* Intersectable::bounds for a group or a triangle
BoundsOther == Bounds(RInt(0), RInt(0), RInt(0), RInt(0), RInt(0), RInt(0))

MaxOffset == 2          \* the ray origins lie within MaxOffset of the axes

\* the rays: every origin and every direction of whole numbers
BoundsRays ==
    {Ray(o, d) : o \in (((0 - MaxOffset)..MaxOffset) \X ((0 - MaxOffset)..MaxOffset)
                            \X ((0 - MaxOffset)..MaxOffset)),
                 d \in ((-1..1) \X (-1..1) \X (-1..1)) \ {<<0, 0, 0>>}}

InitHits ==
    /\ world = NoWorld
    /\ stack = <<>>
    /\ returned = NoColor
    /\ calls = 0
    /\ arg \in {[bounds |-> b, ray |-> r] :
                    b \in {BoundsSphere, BoundsPlane, BoundsOther}, r \in BoundsRays}
    /\ xs = <<>>
    /\ res = None
    /\ pc = "hits"

\* arg.bounds.hits(&arg.ray)
HitsCall ==
    /\ pc = "hits"
    /\ res' = Some(Hits(arg.bounds, arg.ray))
    /\ pc' = "done"
    /\ UNCHANGED <<world, stack, returned, calls, arg, xs>>

NextHits == HitsCall

SpecHits == InitHits /\ [][NextHits]_vars

----------------------------------------------------------------------------
(* C29.  Bounds::hits(ray) returns true whenever the slab interval of the  *)
(* ray against the box is non-empty (the largest per-axis entry t is <=    *)
(* the smallest per-axis exit t), boxes of zero thickness along an axis    *)
(* included.                                                               *)

\* lo <= v <= hi for a whole number v and limits that may be infinite
Between(lo, v, hi) ==
    /\ lo = RNeg(INFINITY) \/ ~RLt(RInt(v), lo)
    /\ hi = INFINITY \/ ~RLt(hi, RInt(v))

\* the point of the ray at t lies in the box, its faces included
InBox(t) ==
    \A i \in 1..3 :
        Between(arg.bounds.min[i], arg.ray.origin[i] + t * arg.ray.direction[i],
                arg.bounds.max[i])

\* the t at which the ray crosses a face of the box, and 0; directions are
\* 0, 1 or -1, so every such t is a whole number
FaceCrossings ==
    {0} \cup {(f[i][1] - arg.ray.origin[i]) * arg.ray.direction[i] :
                  i \in {j \in 1..3 : arg.ray.direction[j] # 0
                                      /\ IsFinite(arg.bounds.min[j])},
                  f \in {arg.bounds.min, arg.bounds.max}}

\* the slab interval is not empty: the ray's line has a point in the box
\* (if it has any, it has one where it crosses a face, or at t = 0 when it
\* crosses none)
SlabIntervalNonEmpty == \E t \in FaceCrossings : InBox(t)

\* C29: hits returns true whenever the slab interval is not empty
BoundsHitsWhenIntervalNonEmpty ==
    (pc = "done" /\ SlabIntervalNonEmpty) => res.val

\* what the code does: hits returns true only if the interval is not empty,
\* and false whenever the interval is a single t; a ray that crosses a
\* plane's bounds, or that touches a box at an edge or a corner, is a miss
BoundsHitsNeedsMoreThanOnePoint ==
    pc = "done" =>
        /\ res.val => SlabIntervalNonEmpty
        /\ Cardinality({t \in FaceCrossings : InBox(t)}) = 1
               /\ (\E i \in 1..3 : arg.ray.direction[i] # 0
                                   /\ IsFinite(arg.bounds.min[i]))
               => ~res.val
        /\ (arg.bounds = BoundsPlane /\ arg.ray.direction[2] # 0) => ~res.val
        /\ Cardinality({t \in FaceCrossings : InBox(t)}) > 1 => res.val

----------------------------------------------------------------------------
(* Shape::normal_at and Shape::normal_to_world of a sphere nested in       *)
(* groups.  A vector of length 1 is written as the shortest vector of      *)
(* whole numbers that points the same way: [unit |-> <<2, 3, -6>>] is      *)
(* (2/7, 3/7, -6/7).                                                       *)

\* Matrix4::transpose
Transpose(m) == [x \in 0..3 |-> [y \in 0..3 |-> m[y][x]]]

\* Intersectable::local_normal_at_sphere: local_point - point(0, 0, 0)
LocalNormalAtSphere(local_point) ==
    Point(local_point.x, local_point.y, local_point.z, RSub(local_point.w, RInt(1)))

\* the smallest denominator the three numbers share
Lcm(a, b) == (a \div Gcd(a, b)) * b

\* Point::normalize of a vector with w = 0; the vector of length 0 gives NaN
UnitVector(v) ==
    LET l == Lcm(Lcm(v.x[2], v.y[2]), v.z[2])
        x == v.x[1] * (l \div v.x[2])
        y == v.y[1] * (l \div v.y[2])
        z == v.z[1] * (l \div v.z[2])
        g == Gcd(Gcd(Abs(x), Abs(y)), Abs(z))
    IN  IF g = 0 THEN [unit |-> <<NAN, NAN, NAN>>]
        ELSE [unit |-> <<x \div g, y \div g, z \div g>>]

\* Point::normalize of a vector that has length 1 already
UnitVectorAgain(u) == u

\* Shape::normal_to_world
RECURSIVE NormalToWorld(_, _)
NormalToWorld(shape, normal) ==
    LET local_normal ==
            [MultiplyPoint(Transpose(Inverse(shape.transform)), normal)
                EXCEPT !.w = RInt(0)]
    IN  IF shape.parent.some
        THEN UnitVectorAgain(NormalToWorld(shape.parent.val, local_normal))
        ELSE UnitVector(local_normal)

\* Shape::normal_at, the shape a sphere
ShapeNormalAt(shape, world_point) ==
    LET local_point == MultiplyPoint(Inverse(shape.transform), world_point)
        local_normal == LocalNormalAtSphere(local_point)
    IN  NormalToWorld(shape, local_normal)

\* the shapes of the world_to_object model and the sphere of
\* test_group_normal_at_child
NormalShapes ==
    NestedShapes \cup {Nested(<<Translation(5, 0, 0), Scaling(1, 2, 3), QuarterTurnY>>)}

\* points of the unit sphere, in object space
SpherePoints == {ExactPoint(1, 0, 0), ExactPoint(0, 1, 0), ExactPoint(0, 0, -1)}

\* a nested sphere and the place in the world of one of the points on it
InitNormalAt ==
    /\ world = NoWorld
    /\ stack = <<>>
    /\ returned = NoColor
    /\ calls = 0
    /\ \E sh \in NormalShapes, p \in SpherePoints :
           arg = [shape |-> sh, point |-> ObjectToWorld(sh, p), on |-> p]
    /\ xs = <<>>
    /\ res = None
    /\ pc = "normal_at"

\* arg.shape.normal_at(&arg.point)
NormalAtCall ==
    /\ pc = "normal_at"
    /\ res' = Some(ShapeNormalAt(arg.shape, arg.point))
    /\ pc' = "done"
    /\ UNCHANGED <<world, stack, returned, calls, arg, xs>>

NextNormalAt == NormalAtCall

SpecNormalAt == InitNormalAt /\ [][NextNormalAt]_vars

----------------------------------------------------------------------------
(* C25.  normal_at(world_point) on a shape nested in groups evaluates the  *)
(* local normal at world_to_object(world_point), the point converted       *)
(* through every ancestor's inverse transform before the shape's own, and  *)
(* converts the local normal back through normal_to_world of the shape and *)
(* of every ancestor.                                                      *)

\* C25: the normal returned is normal_to_world of the local normal at
\* world_to_object(world_point)
NormalAtUsesWorldToObject ==
    pc = "done" =>
        res.val = NormalToWorld(arg.shape,
                      LocalNormalAtSphere(WorldToObject(arg.shape, arg.point)))

\* what the code does: the local normal is taken at inverse(transform) *
\* world_point, the ancestors' transforms left out; without a parent the two
\* points are the same one
NormalAtUsesOwnInverseOnly ==
    pc = "done" =>
        /\ res.val = NormalToWorld(arg.shape, LocalNormalAtSphere(
                         MultiplyPoint(Inverse(arg.shape.transform), arg.point)))
        /\ ~arg.shape.parent.some =>
               res.val = NormalToWorld(arg.shape, LocalNormalAtSphere(arg.on))

\* test_group_local_to_world_normal: normal_to_world of (1, 1, 1) / sqrt(3)
\* on the sphere of the test is (2, 3, -6) / 7
NormalToWorldExample ==
    NormalToWorld(Nested(<<Translation(5, 0, 0), Scaling(1, 2, 3), QuarterTurnY>>),
                  Point(RInt(1), RInt(1), RInt(1), RInt(0)))
        = [unit |-> <<2, 3, -6>>]

----------------------------------------------------------------------------
(* ObjParser::parse.  A line of text is the sequence of its characters, a  *)
(* text the sequence of its lines.  The numbers of a line have few digits, *)
(* so parse::<i32> never overflows.                                        *)

\* the node_type of the ObjNode pushed for the character c; other characters
\* push nothing
NodeType(c) ==
    CASE c = "v" -> "VertexStart"
      [] c = "f" -> "ShapeStart"
      [] c = " " -> "Space"
      [] c \in {"0", "1", "2", "3", "4", "5", "6", "7", "8", "9"} -> "Integer"
      [] c = "." -> "Decimal"
      [] c = "-" -> "MinusSign"
      [] c = "/" -> "Slash"
      [] OTHER -> "none"

ObjNode(c) == [value |-> c, node_type |-> NodeType(c)]

\* the loop over line.chars() of ObjParser::parse
ParsedLine(line) ==
    LET kept == SelectSeq(line, LAMBDA c : NodeType(c) # "none")
    IN  [k \in 1..Len(kept) |-> ObjNode(kept[k])]

\* ObjLineParser::peek
Peek(line, node_type) == line # <<>> /\ line[1].node_type = node_type

\* ObjLineParser::consume_whitespace: the line that is left
RECURSIVE ConsumeWhitespace(_)
ConsumeWhitespace(line) ==
    IF Peek(line, "Space") THEN ConsumeWhitespace(Tail(line)) ELSE line

\* the number a string of digits stands for
RECURSIVE DigitsValue(_)
DigitsValue(digits) ==
    IF digits = <<>> THEN 0
    ELSE 10 * DigitsValue(SubSeq(digits, 1, Len(digits) - 1))
             + (CHOOSE d \in 0..9 : Decimal(d) = <<digits[Len(digits)]>>)

RECURSIVE TenToThe(_)
TenToThe(n) == IF n = 0 THEN 1 ELSE 10 * TenToThe(n - 1)

\* whether s.parse::<f64>() is Ok, for a string of digits with at most one
\* point: it is, unless no digit is there
ParsesAsFloat(string) == \E k \in 1..Len(string) : string[k] # "."

\* ObjParser::float_from_string
FloatFromString(string, negative) ==
    LET digits == SelectSeq(string, LAMBDA c : c # ".")
        point == IF \E k \in 1..Len(string) : string[k] = "."
                 THEN CHOOSE k \in 1..Len(string) : string[k] = "."
                 ELSE Len(string) + 1
        num == Rat(DigitsValue(digits), TenToThe(Len(string) + 1 - point
                                                 - (IF point > Len(string) THEN 0 ELSE 1)))
    IN  IF negative THEN RMul(num, RInt(-1)) ELSE num

\* ObjParser::integer_from_string
IntegerFromString(string) == DigitsValue(string)

\* the loop of ObjLineParser::consume_float: a minus sign, then (in
\* ConsumeFloatNode) a digit, a point, or the end of the number
RECURSIVE ConsumeFloatLoop(_, _, _, _), ConsumeFloatNode(_, _, _, _)
ConsumeFloatLoop(line, negative, decimal, float) ==
    IF line = <<>>
    THEN [line |-> line, negative |-> negative, float |-> float, panic |-> FALSE]
    ELSE IF Peek(line, "MinusSign")
    THEN ConsumeFloatNode(Tail(line), TRUE, decimal, float)
    ELSE ConsumeFloatNode(line, negative, decimal, float)

ConsumeFloatNode(line, negative, decimal, float) ==
    IF Peek(line, "Integer")
    THEN ConsumeFloatLoop(Tail(line), negative, decimal, Append(float, line[1].value))
    ELSE IF Peek(line, "Decimal") /\ decimal
    THEN [line |-> line, negative |-> negative, float |-> float, panic |-> TRUE]
    ELSE IF Peek(line, "Decimal")
    THEN ConsumeFloatLoop(Tail(line), negative, TRUE, Append(float, line[1].value))
    ELSE [line |-> line, negative |-> negative, float |-> float, panic |-> FALSE]

\* the end of ObjLineParser::consume_float, r what the loop left
ConsumeFloatEnd(r) ==
    IF r.panic \/ (r.float # <<>> /\ ~ParsesAsFloat(r.float))
    THEN [line |-> r.line, value |-> None, panic |-> TRUE]
    ELSE IF r.float # <<>>
    THEN [line |-> r.line, value |-> Some(FloatFromString(r.float, r.negative)),
          panic |-> FALSE]
    ELSE [line |-> r.line, value |-> None, panic |-> FALSE]

\* ObjLineParser::consume_float: the line that is left, the Option<f64>
\* returned, and whether it panicked instead
ConsumeFloat(line) == ConsumeFloatEnd(ConsumeFloatLoop(line, FALSE, FALSE, <<>>))

\* the loop of ObjLineParser::consume_integer; after a slash it calls
\* consume_integer and drops what that returns
RECURSIVE ConsumeIntegerLoop(_, _)
ConsumeIntegerLoop(line, int) ==
    IF Peek(line, "Integer")
    THEN ConsumeIntegerLoop(Tail(line), Append(int, line[1].value))
    ELSE IF Peek(line, "Slash")
    THEN ConsumeIntegerLoop(ConsumeIntegerLoop(Tail(line), <<>>).line, int)
    ELSE [line |-> line, int |-> int]

\* ObjLineParser::consume_integer
ConsumeInteger(line) ==
    LET r == ConsumeIntegerLoop(line, <<>>)
    IN  [line |-> r.line,
         value |-> IF r.int # <<>> THEN Some(IntegerFromString(r.int)) ELSE None]

\* p.z = self.consume_float()?; Some(p)
ParsePointZ(x, y, z) ==
    IF z.panic \/ ~z.value.some THEN [value |-> None, panic |-> z.panic]
    ELSE [value |-> Some(Point(x.value.val, y.value.val, z.value.val, RInt(1))),
          panic |-> FALSE]

\* p.y = self.consume_float()?; self.consume_whitespace()
ParsePointY(x, y) ==
    IF y.panic \/ ~y.value.some THEN [value |-> None, panic |-> y.panic]
    ELSE ParsePointZ(x, y, ConsumeFloat(ConsumeWhitespace(y.line)))

\* p.x = self.consume_float()?; self.consume_whitespace()
ParsePointX(x) ==
    IF x.panic \/ ~x.value.some THEN [value |-> None, panic |-> x.panic]
    ELSE ParsePointY(x, ConsumeFloat(ConsumeWhitespace(x.line)))

\* ObjLineParser::parse_point: Some(point), None, or a panic
ParsePoint(line) ==
    IF ~Peek(line, "VertexStart") THEN [value |-> None, panic |-> FALSE]
    ELSE ParsePointX(ConsumeFloat(ConsumeWhitespace(Tail(line))))

\* whether vertices[i as usize - 1] panics: 0 - 1 overflows or wraps to an
\* index past the end, and an i past the end is out of bounds
IndexPanics(vertices, i) == i = 0 \/ i > Len(vertices)

\* ObjLineParser::parse_shape: Some(triangle), None, or a panic
ParseShape(line, vertices) ==
    LET a == ConsumeInteger(ConsumeWhitespace(Tail(line)))
        b == ConsumeInteger(ConsumeWhitespace(a.line))
        c == ConsumeInteger(ConsumeWhitespace(b.line))
    IN  IF ~Peek(line, "ShapeStart") THEN [value |-> None, panic |-> FALSE]
        ELSE IF ~a.value.some THEN [value |-> None, panic |-> FALSE]
        ELSE IF IndexPanics(vertices, a.value.val) THEN [value |-> None, panic |-> TRUE]
        ELSE IF ~b.value.some THEN [value |-> None, panic |-> FALSE]
        ELSE IF IndexPanics(vertices, b.value.val) THEN [value |-> None, panic |-> TRUE]
        ELSE IF ~c.value.some THEN [value |-> None, panic |-> FALSE]
        ELSE IF IndexPanics(vertices, c.value.val) THEN [value |-> None, panic |-> TRUE]
        ELSE [value |-> Some(<<vertices[a.value.val], vertices[b.value.val],
                               vertices[c.value.val]>>),
              panic |-> FALSE]

\* ObjLineParser::run: the points and the shapes of the line, or a panic
Run(line, vertices) ==
    LET point == ParsePoint(line)
        shape == ParseShape(line, vertices)
    IN  IF Peek(line, "VertexStart")
        THEN [points |-> IF point.value.some THEN <<point.value.val>> ELSE <<>>,
              shapes |-> <<>>, panic |-> point.panic]
        ELSE IF Peek(line, "ShapeStart")
        THEN [points |-> <<>>,
              shapes |-> IF shape.value.some THEN <<shape.value.val>> ELSE <<>>,
              panic |-> shape.panic]
        ELSE [points |-> <<>>, shapes |-> <<>>, panic |-> FALSE]

MaxLines == 3           \* most lines of a text

\* vertex and face records, other lines, and incomplete and malformed records
ObjLines ==
    {<<"v", " ", "-", "1", " ", "1", " ", "0">>,
     <<"v", " ", "0", ".", "5", " ", "2", " ", "1", "0">>,
     <<"f", " ", "1", " ", "2", " ", "1">>,
     <<"f", " ", "1", "/", "1", " ", "1", " ", "1">>,
     <<"v", "n", " ", "0", " ", "0", " ", "1">>,
     <<"#", "v", " ", "1", " ", "2", " ", "3">>,
     <<"i", "n", " ", "a", " ", "w", "a", "y">>,
     <<>>,
     <<"v", " ", "-", "1", " ", "1">>,
     <<"v", " ", "1", ".", "2", ".", "3", " ", "0", " ", "0">>,
     <<"f", " ", "0", " ", "1", " ", "1">>,
     <<"f", " ", "1", " ", "1">>,
     <<"v", " ", ".", " ", "0", " ", "0">>}

InitParse ==
    /\ world = NoWorld
    /\ stack = <<>>
    /\ returned = NoColor
    /\ calls = 0
    /\ arg \in SeqUpTo(ObjLines, MaxLines)
    /\ xs = <<>>
    /\ res = [vertices |-> <<>>, children |-> <<>>]
    /\ pc = "parse"

\* ObjParser::parse, the first loop: every line of the text becomes nodes
ParseNodes ==
    /\ pc = "parse"
    /\ xs' = [k \in 1..Len(arg) |-> ParsedLine(arg[k])]
    /\ pc' = "parse_line"
    /\ UNCHANGED <<world, stack, returned, calls, arg, res>>

\* ObjParser::parse_line of a line that gives no shape
ParseLine ==
    /\ pc = "parse_line" /\ xs # <<>>
    /\ LET output == Run(xs[1], res.vertices)
       IN  /\ ~output.panic /\ output.shapes = <<>>
           /\ res' = [res EXCEPT !.vertices = @ \o output.points]
    /\ xs' = Tail(xs)
    /\ UNCHANGED <<world, stack, returned, calls, arg, pc>>

\* ObjParser::parse_line, ObjLineParser::run panics
ParseLinePanics ==
    /\ pc = "parse_line" /\ xs # <<>>
    /\ Run(xs[1], res.vertices).panic
    /\ pc' = "panicked"
    /\ UNCHANGED <<world, stack, returned, calls, arg, xs, res>>

\* ObjParser::parse_line of a line that gives a shape: Shape::add_shape adds
\* the triangle to the group.  (obj_parser.rs is not part of the build and
\* hands add_shape an Rc<RefCell<Shape>>; this is what the call is for.)
ParseLineAddShape ==
    /\ pc = "parse_line" /\ xs # <<>>
    /\ LET output == Run(xs[1], res.vertices)
       IN  /\ ~output.panic /\ output.shapes # <<>>
           /\ res' = [res EXCEPT !.children = @ \o output.shapes]
    /\ xs' = Tail(xs)
    /\ UNCHANGED <<world, stack, returned, calls, arg, pc>>

\* ObjParser::parse_line of a line that gives a shape: Shape::add_shape as
\* shape.rs has it panics, the group being shared
ParseLineAddShapePanics ==
    /\ pc = "parse_line" /\ xs # <<>>
    /\ LET output == Run(xs[1], res.vertices)
       IN  ~output.panic /\ output.shapes # <<>>
    /\ pc' = "add_shape panicked"
    /\ UNCHANGED <<world, stack, returned, calls, arg, xs, res>>

\* ObjParser::parse returns the group
ParseReturn ==
    /\ pc = "parse_line" /\ xs = <<>>
    /\ pc' = "done"
    /\ UNCHANGED <<world, stack, returned, calls, arg, xs, res>>

NextParse ==
    \/ ParseNodes
    \/ ParseLine
    \/ ParseLinePanics
    \/ ParseLineAddShape
    \/ ParseLineAddShapePanics
    \/ ParseReturn

SpecParse == InitParse /\ [][NextParse]_vars

----------------------------------------------------------------------------
(* Lines of a text as the OBJ format reads them: words separated by        *)
(* spaces, the first word the keyword of the record.                       *)

\* the words of a line
RECURSIVE Words(_)
Words(line) ==
    IF line = <<>> THEN <<>>
    ELSE IF line[1] = " " THEN Words(Tail(line))
    ELSE LET n == IF \E k \in 1..Len(line) : line[k] = " "
                  THEN (CHOOSE k \in 1..Len(line) :
                            line[k] = " " /\ \A j \in 1..(k - 1) : line[j] # " ") - 1
                  ELSE Len(line)
         IN  <<SubSeq(line, 1, n)>> \o Words(SubSeq(line, n + 1, Len(line)))

\* the keyword of a line: what stands before its first space
Keyword(line) ==
    IF line = <<>> \/ line[1] = " " THEN <<>> ELSE Words(line)[1]

\* how many lines parse_line has returned from
Processed == IF pc = "parse" THEN 0 ELSE Len(arg) - Len(xs)

\* the line parse_line is working on
CurrentLine == arg[Processed + 1]

\* the first node of a line: the first of its characters that parse knows
FirstNode(line) ==
    IF ParsedLine(line) = <<>> THEN "" ELSE ParsedLine(line)[1].value

----------------------------------------------------------------------------
(* C22.  ObjParser::parse ignores every line that is not a vertex record   *)
(* ('v' followed by three numbers) or a face record ('f' followed by       *)
(* vertex indices): such a line adds no vertex and no triangle, whatever   *)
(* characters it contains.                                                 *)

\* C22: every vertex comes from a line with the keyword v and every triangle
\* from a line with the keyword f
ParseIgnoresOtherLines ==
    /\ Len(res.vertices)
           <= Cardinality({k \in 1..Processed : Keyword(arg[k]) = <<"v">>})
    /\ Len(res.children)
           <= Cardinality({k \in 1..Processed : Keyword(arg[k]) = <<"f">>})

\* what the code does: characters it does not know are dropped before the
\* line is read, so a line counts as a vertex record when the first of its
\* characters among "vf 0123456789.-/" is a v ("vn 0 0 1", "#v 1 2 3")
ParseReadsFirstKnownCharacter ==
    /\ Len(res.vertices)
           <= Cardinality({k \in 1..Processed : FirstNode(arg[k]) = "v"})
    /\ Len(res.children)
           <= Cardinality({k \in 1..Processed : FirstNode(arg[k]) = "f"})
    /\ pc = "done" =>
           Len(res.vertices) >=
               Cardinality({k \in 1..Len(arg) :
                                arg[k] \in {<<"v", "n", " ", "0", " ", "0", " ", "1">>,
                                            <<"#", "v", " ", "1", " ", "2", " ", "3">>}})

----------------------------------------------------------------------------
(* C23.  An incomplete or malformed vertex or face line (too few numbers,  *)
(* a number with two decimal points, a face index of 0 or beyond the       *)
(* vertices read so far) adds no vertex and no triangle, does not panic,   *)
(* and parsing continues with the following lines.                         *)

\* how many decimal points a word has
Points(word) == Cardinality({k \in 1..Len(word) : word[k] = "."})

\* the vertex index a word of a face record starts with
FaceIndex(word) ==
    DigitsValue(SelectSeq(
        SubSeq(word, 1, IF \E k \in 1..Len(word) : word[k] = "/"
                        THEN (CHOOSE k \in 1..Len(word) :
                                  word[k] = "/" /\ \A j \in 1..(k - 1) : word[j] # "/") - 1
                        ELSE Len(word)),
        LAMBDA c : NodeType(c) = "Integer"))

\* a vertex or face line of one of the kinds the claim lists, given the
\* number of vertices read before it
Malformed(line, vertices) ==
    LET words == Words(line)
    IN  /\ Keyword(line) \in {<<"v">>, <<"f">>}
        /\ \/ Len(words) < 4
           \/ Keyword(line) = <<"v">>
              /\ \E k \in 2..Len(words) : Points(words[k]) >= 2
           \/ Keyword(line) = <<"f">>
              /\ \E k \in 2..Len(words) :
                     FaceIndex(words[k]) = 0 \/ FaceIndex(words[k]) > vertices

\* C23: the parser never panics on a malformed line
ParseSurvivesMalformedLines ==
    pc = "panicked" => ~Malformed(CurrentLine, Len(res.vertices))

\* what the code does: a line with too few numbers adds nothing and the next
\* line is read, but a second decimal point, a point without digits, and a
\* face index that is 0 or past the vertices read so far panic
ParsePanicsOnNumbers ==
    /\ pc = "panicked" =>
           LET words == Words(CurrentLine)
           IN  \/ FirstNode(CurrentLine) = "v"
                  /\ \E k \in 2..Len(words) :
                         Points(words[k]) >= 2 \/ words[k] = <<".">>
               \/ FirstNode(CurrentLine) = "f"
                  /\ \E k \in 2..Len(words) :
                         FaceIndex(words[k]) = 0
                             \/ FaceIndex(words[k]) > Len(res.vertices)
    /\ \A k \in 1..Processed :
           (Keyword(arg[k]) \in {<<"v">>, <<"f">>} /\ Len(Words(arg[k])) < 4) =>
               /\ Len(res.vertices) <= Processed - 1
               /\ Len(res.children) <= Processed - 1

\* test_parsing_vertex_data: the vertices of "v -1 1 0" and "v 0.5 2 10"
ParseVertexExample ==
    (pc = "done" /\ arg = <<<<"v", " ", "-", "1", " ", "1", " ", "0">>,
                            <<"v", " ", "0", ".", "5", " ", "2", " ", "1", "0">>>>)
        => res.vertices = <<ExactPoint(-1, 1, 0),
                            Point(Rat(1, 2), RInt(2), RInt(10), RInt(1))>>
====
